---- MODULE Spec2Model ----
(***************************************************************************)
(* A model of the eBay tracker: the SQLite store of seen items             *)
(* (database.py), the search client with its two API paths and response    *)
(* parsers (tracker.py), the notification call (notifier.py) and the poll  *)
(* loop EbayTracker.run (tracker.py).                                      *)
(*                                                                         *)
(* Text that the code inspects character by character (titles, exclusion   *)
(* words, location strings) is a sequence of one-character strings; text   *)
(* that the code only copies (ids, urls, prices) is a TLA+ string.         *)
(***************************************************************************)
EXTENDS Integers, Sequences, FiniteSets, TLC

(***************************************************************************)
(* Bounds of the model.                                                    *)
(***************************************************************************)
\* the clock runs over 0..MaxTime (one tick is one calendar day)
MaxTime == 2
\* the longest retention window handed to cleanup_old_items
MaxDays == 1
\* the largest LIMIT handed to get_recent_items
MaxLimit == 2
\* the longest title and the longest exclusion word the parsers are tried on
MaxTitleLen == 2

(***************************************************************************)
(* Python values.                                                          *)
(***************************************************************************)
\* Python's None for a copied (opaque) value: dict.get() of a missing key
None == "<None>"

\* Python's None for a text value held as a character sequence
NoneS == <<"<None>">>

\* Python truthiness of an optional opaque string
Truthy(v) == v /= None /\ v /= ""

(***************************************************************************)
(* database.py: the seen_items table.  A table is a set of rows; the       *)
(* schema's constraints are enforced by SqlInsert.                         *)
(***************************************************************************)
ItemIds == {"A", "B"}

Keywords == {"joy division cassette", "new order vinyl"}

\* the calendar date of a timestamp: SQLite DATE(first_seen_at)
DateOf(t) == t

\* the column values add_item binds, in column order (database.py:82-95)
RowOf(item, t) ==
    [item_id           |-> item.item_id,
     title             |-> item.title,
     price             |-> item.price,
     currency          |-> item.currency,
     url               |-> item.url,
     image_url         |-> item.image_url,
     condition_display |-> item.condition,
     seller_username   |-> item.seller,
     listing_date      |-> item.listing_date,
     search_keyword    |-> item.keyword,
     first_seen_at     |-> t,
     notified          |-> 0]

\* SELECT 1 FROM seen_items WHERE item_id = ?
is_item_seen(table, item_id) == \E r \in table : r.item_id = item_id

\* INSERT INTO seen_items under the schema: item_id PRIMARY KEY, title and url
\* NOT NULL.  ok = FALSE is sqlite3.IntegrityError, the table untouched.
SqlInsert(table, row) ==
    IF \/ \E r \in table : r.item_id = row.item_id
       \/ row.title = NoneS
       \/ row.url = None
    THEN [ok |-> FALSE, table |-> table]
    ELSE [ok |-> TRUE, table |-> table \cup {row}]

\* a plausible bug: the existence check is dropped and the statement is
\* INSERT OR REPLACE, so a listing that reappears is written again
add_item_replace(table, item, t) ==
    [raised |-> FALSE, ret |-> TRUE,
     table  |-> {r \in table : r.item_id /= item.item_id} \cup {RowOf(item, t)}]

\* a plausible bug: the values are bound in a wrong column order
add_item_swapped(table, item, t) ==
    IF is_item_seen(table, item.item_id)
    THEN [raised |-> FALSE, ret |-> FALSE, table |-> table]
    ELSE [raised |-> FALSE, ret |-> TRUE,
          table  |-> table \cup
                     {[RowOf(item, t) EXCEPT !.condition_display = item.seller,
                                             !.seller_username = item.condition]}]

\* Database.add_item: ret is the returned bool, raised an escaping exception
add_item(table, item, t) ==
    IF is_item_seen(table, item.item_id)
    THEN [raised |-> FALSE, ret |-> FALSE, table |-> table]
    ELSE LET ins == SqlInsert(table, RowOf(item, t))
         IN  IF ins.ok
             THEN [raised |-> FALSE, ret |-> TRUE, table |-> ins.table]
             ELSE [raised |-> TRUE, ret |-> FALSE, table |-> table]

\* Database.mark_as_notified: UPDATE ... SET notified = 1 WHERE item_id = ?
mark_as_notified(table, item_id) ==
    {IF r.item_id = item_id THEN [r EXCEPT !.notified = 1] ELSE r : r \in table}

\* Database.cleanup_old_items: DELETE ... WHERE first_seen_at < now - days
cleanup_old_items(table, days, t) ==
    LET gone == {r \in table : r.first_seen_at < t - days}
    IN  [deleted |-> Cardinality(gone), table |-> table \ gone]

\* Database.get_stats
get_stats(table, t) ==
    [total_items      |-> Cardinality(table),
     items_by_keyword |-> [k \in {r.search_keyword : r \in table} |->
                              Cardinality({r \in table : r.search_keyword = k})],
     items_today      |-> Cardinality({r \in table :
                                          DateOf(r.first_seen_at) = DateOf(t)})]

\* the sequences over a finite set that list each element once
Orderings(S) ==
    {s \in [1..Cardinality(S) -> S] : \A i, j \in 1..Cardinality(S) :
                                         i /= j => s[i] /= s[j]}

\* Database.get_recent_items: every result that ORDER BY first_seen_at DESC
\* LIMIT ? allows (rows with equal timestamps come in either order); a falsy
\* keyword selects all rows
get_recent_items(table, limit, keyword) ==
    LET rows == IF Truthy(keyword)
                THEN {r \in table : r.search_keyword = keyword}
                ELSE table
        n    == IF limit < Cardinality(rows) THEN limit ELSE Cardinality(rows)
    IN  {SubSeq(s, 1, n) : s \in {o \in Orderings(rows) :
            \A i \in 1..(Len(o) - 1) :
                o[i].first_seen_at >= o[i + 1].first_seen_at}}

(***************************************************************************)
(* Text: str.lower, str.upper, str.strip and the substring test `in'.      *)
(***************************************************************************)
LowerLetters ==
    <<"a", "b", "c", "d", "e", "f", "g", "h", "i", "j", "k", "l", "m",
      "n", "o", "p", "q", "r", "s", "t", "u", "v", "w", "x", "y", "z">>

UpperLetters ==
    <<"A", "B", "C", "D", "E", "F", "G", "H", "I", "J", "K", "L", "M",
      "N", "O", "P", "Q", "R", "S", "T", "U", "V", "W", "X", "Y", "Z">>

\* the lower-case letter of each upper-case letter, and the reverse
LowerOf ==
    [c \in {UpperLetters[i] : i \in 1..Len(UpperLetters)} |->
        LowerLetters[CHOOSE i \in 1..Len(UpperLetters) : UpperLetters[i] = c]]

UpperOf ==
    [c \in {LowerLetters[i] : i \in 1..Len(LowerLetters)} |->
        UpperLetters[CHOOSE i \in 1..Len(LowerLetters) : LowerLetters[i] = c]]

ToLower(c) == IF c \in DOMAIN LowerOf THEN LowerOf[c] ELSE c

ToUpper(c) == IF c \in DOMAIN UpperOf THEN UpperOf[c] ELSE c

\* str.lower()
Lower(s) == [i \in 1..Len(s) |-> ToLower(s[i])]

\* str.upper()
Upper(s) == [i \in 1..Len(s) |-> ToUpper(s[i])]

\* str.strip(): leading and trailing blanks removed
Strip(s) ==
    LET ink == {i \in 1..Len(s) : s[i] /= " "}
    IN  IF ink = {} THEN <<>>
        ELSE SubSeq(s, CHOOSE i \in ink : \A j \in ink : i <= j,
                       CHOOSE i \in ink : \A j \in ink : i >= j)

\* Python's `sub in s' on strings (the empty string is in every string)
Contains(sub, s) ==
    \E i \in 0..(Len(s) - Len(sub)) : SubSeq(s, i + 1, i + Len(sub)) = sub

(***************************************************************************)
(* config.py.  A configuration is a record of the environment values; the  *)
(* comma-separated ones are held already split at the commas.              *)
(***************************************************************************)
\* Config.EXCLUDE_KEYWORDS (config.py:29): stripped, lower-cased, blanks dropped
EXCLUDE_KEYWORDS(cfg) ==
    LET NonBlank(e) == Strip(e) /= <<>>
        kept == SelectSeq(cfg.EXCLUDE_KEYWORDS_ENV, NonBlank)
    IN  [i \in 1..Len(kept) |-> Lower(Strip(kept[i]))]

\* Variant: the search API key is not looked at
validate_keywords_only(cfg) == [raised |-> cfg.SEARCH_KEYWORDS = <<>>]

\* Config.validate: raises ValueError when EBAY_APP_ID or SEARCH_KEYWORDS
\* is empty
validate(cfg) == [raised |-> cfg.EBAY_APP_ID = "" \/ cfg.SEARCH_KEYWORDS = <<>>]

\* Variant: the bot token is not looked at
is_telegram_enabled_chat_only(cfg) == cfg.TELEGRAM_CHAT_IDS /= <<>>

\* Config.is_telegram_enabled (config.py:74-77); TELEGRAM_CHAT_ID is the
\* first configured chat id
is_telegram_enabled(cfg) ==
    cfg.TELEGRAM_BOT_TOKEN /= "" /\ cfg.TELEGRAM_CHAT_IDS /= <<>>

\* EbayTracker._get_marketplace_id: the map with its EBAY_US default
get_marketplace_id(cfg) ==
    CASE cfg.EBAY_SITE_ID = "EBAY_UK" -> "EBAY_GB"
      [] cfg.EBAY_SITE_ID \in {"EBAY_US", "EBAY_DE", "EBAY_AU", "EBAY_AT",
                               "EBAY_CA", "EBAY_FR", "EBAY_IT", "EBAY_ES"}
                                      -> cfg.EBAY_SITE_ID
      [] OTHER                        -> "EBAY_US"

(***************************************************************************)
(* tracker.py: the two response parsers.  A remote listing is a record     *)
(*   itemId, title, url, price, currency, image, condition, seller,        *)
(*   startTime, city, postalCode, country, shipTo                          *)
(* with None / NoneS for a key the payload does not carry.  The modern     *)
(* payload shows city, postalCode and country under itemLocation; the      *)
(* legacy payload shows city as location, country, and shipTo as           *)
(* shippingInfo.shipToLocations.                                           *)
(***************************************************************************)
GB == <<"G", "B">>

US == <<"U", "S">>

UK == <<"U", "K">>

USA == <<"U", "S", "A">>

UNITED_KINGDOM ==
    <<"U", "N", "I", "T", "E", "D", " ", "K", "I", "N", "G", "D", "O", "M">>

UNITED_STATES ==
    <<"U", "N", "I", "T", "E", "D", " ", "S", "T", "A", "T", "E", "S">>

\* a plausible bug: the title is compared without lower-casing it
Excluded_case_sensitive(title, cfg) ==
    \E i \in 1..Len(EXCLUDE_KEYWORDS(cfg)) :
        Contains(EXCLUDE_KEYWORDS(cfg)[i], title)

\* the exclusion filter of both parsers (tracker.py:269-281, 405-417)
Excluded(title, cfg) ==
    /\ EXCLUDE_KEYWORDS(cfg) /= <<>>
    /\ \E i \in 1..Len(EXCLUDE_KEYWORDS(cfg)) :
           Contains(EXCLUDE_KEYWORDS(cfg)[i], Lower(title))

\* [loc.strip().upper() for loc in Config.LOCATED_IN.split(',')]
located_in_codes(cfg) ==
    [i \in 1..Len(cfg.LOCATED_IN) |-> Upper(Strip(cfg.LOCATED_IN[i]))]

\* f"{item_location} {item_country}".strip()
JoinLocation(item_location, item_country) ==
    Strip(item_location \o <<" ">> \o item_country)

\* the combined location string of the modern parser (tracker.py:285-298)
BrowseFullLocation(raw) ==
    LET item_country == IF raw.country /= NoneS THEN raw.country ELSE <<>>
        city         == IF raw.city /= NoneS THEN raw.city ELSE <<>>
        item_location == IF raw.postalCode /= NoneS
                         THEN city \o <<" ">> \o raw.postalCode
                         ELSE city
    IN  JoinLocation(item_location, item_country)

\* the location decision of the modern parser (tracker.py:300-320)
BrowseLocationMatches(raw, cfg) ==
    LET full  == BrowseFullLocation(raw)
        codes == located_in_codes(cfg)
    IN  IF full /= <<>>
        THEN \E i \in 1..Len(codes) :
                \/ Contains(codes[i], Upper(full))
                \/ /\ codes[i] = GB
                   /\ \/ Contains(UNITED_KINGDOM, Upper(full))
                      \/ Contains(UK, Upper(full))
        ELSE /\ \E i \in 1..Len(codes) : codes[i] = GB
             /\ get_marketplace_id(cfg) = "EBAY_GB"

\* the combined location string of the legacy parser (tracker.py:420-436)
FindingFullLocation(raw) ==
    LET item_location == IF raw.city /= NoneS THEN raw.city ELSE <<>>
        country       == IF raw.country /= NoneS THEN raw.country ELSE <<>>
        item_country  == IF raw.shipTo /= NoneS /\ country = <<>>
                         THEN raw.shipTo
                         ELSE country
    IN  JoinLocation(item_location, item_country)

\* a plausible bug: the legacy parser compares the site id with the
\* marketplace id EBAY_GB, which no site id equals
FindingLocationMatches_wrong_site(raw, cfg) ==
    LET full  == FindingFullLocation(raw)
        codes == located_in_codes(cfg)
    IN  IF full /= <<>>
        THEN \E i \in 1..Len(codes) : Contains(codes[i], Upper(full))
        ELSE /\ \E i \in 1..Len(codes) : codes[i] = GB
             /\ cfg.EBAY_SITE_ID = "EBAY_GB"

\* Variant: a listing that does not match is reported and kept
FindingLocationMatches_warn_only(raw, cfg) == TRUE

\* the location decision of the legacy parser (tracker.py:442-464)
FindingLocationMatches(raw, cfg) ==
    LET full  == FindingFullLocation(raw)
        codes == located_in_codes(cfg)
    IN  IF full /= <<>>
        THEN \E i \in 1..Len(codes) :
                \/ Contains(codes[i], Upper(full))
                \/ /\ codes[i] = GB
                   /\ \/ Contains(UNITED_KINGDOM, Upper(full))
                      \/ Contains(UK, Upper(full))
                \/ /\ codes[i] = US
                   /\ \/ Contains(UNITED_STATES, Upper(full))
                      \/ Contains(USA, Upper(full))
        ELSE /\ \E i \in 1..Len(codes) : codes[i] = GB
             /\ cfg.EBAY_SITE_ID = "EBAY_UK"

\* an item whose required keys are missing raises KeyError inside the
\* per-item try block and is skipped (tracker.py:220-225, 351-356)
ItemRaises(raw) == raw.itemId = None \/ raw.title = NoneS \/ raw.url = None

\* the modern parser keeps the item
BrowseKeeps(raw, cfg) ==
    /\ ~ItemRaises(raw)
    /\ ~Excluded(raw.title, cfg)
    /\ cfg.LOCATED_IN /= <<>> => BrowseLocationMatches(raw, cfg)

\* the legacy parser keeps the item; a startTime that fromisoformat rejects
\* raises inside the per-item try block
FindingKeeps(raw, cfg) ==
    /\ ~ItemRaises(raw)
    /\ raw.startTime /= "not-a-date"
    /\ ~Excluded(raw.title, cfg)
    /\ cfg.LOCATED_IN /= <<>> => FindingLocationMatches(raw, cfg)

\* the item dict the modern parser builds (tracker.py:220-245); listing_date
\* is the time of the poll
BrowseItem(raw, keyword, t) ==
    [item_id      |-> raw.itemId,
     title        |-> raw.title,
     url          |-> raw.url,
     keyword      |-> keyword,
     price        |-> raw.price,
     currency     |-> raw.currency,
     image_url    |-> raw.image,
     condition    |-> raw.condition,
     seller       |-> raw.seller,
     listing_date |-> ToString(t)]

\* the item dict the legacy parser builds (tracker.py:351-389)
FindingItem(raw, keyword) ==
    [item_id      |-> raw.itemId,
     title        |-> raw.title,
     url          |-> raw.url,
     keyword      |-> keyword,
     price        |-> raw.price,
     currency     |-> raw.currency,
     image_url    |-> raw.image,
     condition    |-> raw.condition,
     seller       |-> raw.seller,
     listing_date |-> raw.startTime]

\* EbayTracker._parse_browse_response over data['itemSummaries']
parse_browse_response(summaries, keyword, cfg, t) ==
    LET Keep(raw) == BrowseKeeps(raw, cfg)
        kept == SelectSeq(summaries, Keep)
    IN  [i \in 1..Len(kept) |-> BrowseItem(kept[i], keyword, t)]

\* Variant: the first item that raises ends the parse; the items built
\* before it are returned
parse_finding_response_aborts(listing, keyword, cfg) ==
    LET bad   == {i \in 1..Len(listing) :
                     ItemRaises(listing[i]) \/ listing[i].startTime = "not-a-date"}
        n     == IF bad = {} THEN Len(listing)
                 ELSE (CHOOSE i \in bad : \A j \in bad : i <= j) - 1
        Keep(raw) == FindingKeeps(raw, cfg)
        kept  == SelectSeq(SubSeq(listing, 1, n), Keep)
    IN  [i \in 1..Len(kept) |-> FindingItem(kept[i], keyword)]

\* EbayTracker._parse_finding_response over searchResult.item
parse_finding_response(listing, keyword, cfg) ==
    LET Keep(raw) == FindingKeeps(raw, cfg)
        kept == SelectSeq(listing, Keep)
    IN  [i \in 1..Len(kept) |-> FindingItem(kept[i], keyword)]

(***************************************************************************)
(* State.                                                                  *)
(***************************************************************************)
VARIABLES
    cfg,          \* the configuration resolved at process start
    seen_items,   \* the seen_items table
    now,          \* the wall clock
    calls,        \* the last two calls made on the store, oldest first
    inserted,     \* per item id, the dict of the insert that made its row
    marked,       \* the ids marked notified since their row was inserted
    parsed,       \* the last parser application: input and output
    pc,           \* where the poll loop stands
    runNo,        \* the number of EbayTracker.run calls started
    kwIdx,        \* the position of the current keyword in SEARCH_KEYWORDS
    items,        \* the list the search returned for the current keyword
    idx,          \* the position of the current item in items
    new_items,    \* run's counter of new items of the current keyword
    total_new_items,  \* run's counter of new items, its return value
    stats,        \* the get_stats() result the run printed last
    access_token,     \* EbayTracker.access_token is set
    token_expires_at, \* EbayTracker.token_expires_at
    lastSearch,   \* the requests of the search_browse_api call just returned
    attempts,     \* the ids passed to notify_new_item in the current run
    outcome,      \* per item id, how the notification of its row ended
    inserts,      \* the rows the current run inserted
    liveInserts,  \* per item id, the inserts since its row was last absent
    totalInserts, \* per item id, the inserts ever made (counted up to 2)
    remote,       \* per keyword searched in the current run, the remote answer
    prevRemote,   \* the previous run's answers for the keywords yet to search
    repeated,     \* so far this run repeats the previous one: nothing was
                  \* purged in between and every search was answered alike
    purgedCur,    \* rows were purged since the current run started
    subscribers,  \* the subscribers table
    botLog,       \* per chat id, the last commands of the chat and their replies
    notice,       \* the last call of a notify_* wrapper: input and result
    status,       \* the completion status of the tracker process
    errorNotice,  \* the notify_error call main made, if it made one
    dispatched,   \* the recipients the current run attempted a send to
    handler,      \* the except clause of main that ran, if one did
    fault,        \* the last exception raised in the process: the operation
                  \* that raised it, its kind, and the progress at that point
    message,      \* the last call of _format_item_message: input and result
    tokenLog,     \* the last call of get_oauth_token and the last exchange
                  \* that gave a token: its time and its expires_in
    cut,          \* the last termination of a run from outside: where the
                  \* run stood, the table it left and the notifications
                  \* attempted in the runs terminated so far
    carried,      \* the ids whose row was there, not marked notified, when
                  \* the current run started
    race          \* two poll-loop processes on one store that were handed
                  \* the same item: the item, and where each of them stands

bot == <<subscribers, botLog>>

proc == <<status, errorNotice, dispatched, handler, fault>>

aux == <<message, tokenLog, cut, carried, race>>

storeHist == <<calls, inserted, marked>>

loop == <<pc, runNo, kwIdx, items, idx, new_items, total_new_items, stats,
          access_token, token_expires_at, lastSearch, attempts, outcome,
          inserts, liveInserts, totalInserts, remote, prevRemote,
          repeated, purgedCur>>

vars == <<cfg, seen_items, now, calls, inserted, marked, parsed, loop, bot,
         notice, proc, aux>>

\* the configuration of a process that runs with the defaults of config.py
\* and the two required values set
DefaultConfig ==
    [EBAY_APP_ID          |-> "app-id",
     SEARCH_KEYWORDS      |-> <<"joy division cassette", "new order vinyl">>,
     EXCLUDE_KEYWORDS_ENV |-> <<>>,
     LOCATED_IN           |-> <<>>,
     EBAY_SITE_ID         |-> "EBAY_US",
     TELEGRAM_BOT_TOKEN   |-> "",
     TELEGRAM_CHAT_IDS    |-> <<>>]

NoItem ==
    [item_id |-> None, title |-> NoneS, url |-> None, keyword |-> None,
     price |-> None, currency |-> None, image_url |-> None,
     condition |-> None, seller |-> None, listing_date |-> None]

NoCall ==
    [op |-> "none", item |-> NoItem, item_id |-> None, ret |-> FALSE,
     raised |-> FALSE, absent_before |-> FALSE, notified_before |-> FALSE,
     total_before |-> 0, total_after |-> 0, changed |-> FALSE, rows |-> <<>>]

NoParse == [api |-> "none", listings |-> <<>>, out |-> <<>>]

NoSearch ==
    [token |-> "none", browse |-> "none", finding |-> "none",
     listing |-> <<>>, keyword |-> None, requests |-> <<>>]

NoStats == [total_items |-> 0, items_by_keyword |-> <<>>, items_today |-> 0]

ChatIds == {"123", "456"}

NoNotice ==
    [op |-> "none", enabled |-> FALSE, configured |-> FALSE, image |-> FALSE,
     count |-> 0, recipients |-> <<>>, ctor |-> "ok", outcomes |-> <<>>,
     sent |-> <<>>, ret |-> FALSE, raised |-> FALSE]

NoErrorNotice == [called |-> FALSE, raised |-> FALSE, ret |-> FALSE, sent |-> <<>>]

NoFault == [op |-> "none", kind |-> "none", seen |-> {}, attempts |-> <<>>, searched |-> 0]

\* an item as _format_item_message reads it; None stands for a missing key
NoListing ==
    [title |-> None, listing_type |-> None, end_time |-> None,
     price |-> None, currency |-> None, bid_count |-> None,
     shipping_cost |-> None, shipping_currency |-> None, condition |-> None,
     seller |-> None, listing_date |-> None, keyword |-> None, url |-> None]

NoRateReply == [kind |-> "none", gbp |-> 0]

NoMessage ==
    [op |-> "none", item |-> NoListing, remaining |-> None,
     reply |-> NoRateReply, out |-> <<>>]

NoTokenCall ==
    [called |-> FALSE, at |-> 0, held |-> FALSE, reply |-> "none",
     requested |-> FALSE, token |-> FALSE, issued |-> 0, expires_in |-> 0,
     before |-> [issued |-> 0, expires_in |-> 0]]

\* the two poll-loop processes
Invocations == {1, 2}

\* no item was handed to the two processes
NoRace ==
    [item |-> NoItem,
     inv  |-> [p \in Invocations |-> [pc |-> "idle", ret |-> "none",
                                      notified |-> FALSE]]]

\* no run was terminated
NoCut ==
    [happened |-> FALSE, at |-> "none", sent |-> FALSE, item |-> None,
     run |-> 0, seen |-> {}, attempts |-> <<>>]

\* nothing formatted yet, no token asked for yet, no run terminated
InitAux ==
    /\ message = NoMessage
    /\ tokenLog = NoTokenCall
    /\ cut = NoCut
    /\ carried = {}
    /\ race = NoRace

\* no tracker process yet
InitProc ==
    /\ status = "none"
    /\ errorNotice = NoErrorNotice
    /\ dispatched = {}
    /\ handler = "none"
    /\ fault = NoFault

\* no subscriber, no command of the bot, no notify_* call, no tracker
\* process yet
InitRest ==
    /\ subscribers = {}
    /\ botLog = [c \in ChatIds |-> <<>>]
    /\ notice = NoNotice
    /\ InitProc
    /\ InitAux

\* the poll loop before EbayTracker.run is called: __init__ leaves
\* access_token = None and token_expires_at = 0 (tracker.py:29-30)
InitLoop ==
    /\ pc = "idle"
    /\ runNo = 0
    /\ kwIdx = 0
    /\ items = <<>>
    /\ idx = 0
    /\ new_items = 0
    /\ total_new_items = 0
    /\ stats = NoStats
    /\ access_token = FALSE
    /\ token_expires_at = 0
    /\ lastSearch = NoSearch
    /\ attempts = <<>>
    /\ outcome = [i \in ItemIds |-> "none"]
    /\ inserts = 0
    /\ liveInserts = [i \in ItemIds |-> 0]
    /\ totalInserts = [i \in ItemIds |-> 0]
    /\ remote = <<>>
    /\ prevRemote = <<>>
    /\ repeated = FALSE
    /\ purgedCur = FALSE

\* the history keeps the last two calls
Logged(c) == IF calls = <<>> THEN <<c>> ELSE <<calls[Len(calls)], c>>

\* what a change of the table does to the two bookkeeping variables
Bookkeeping(table, item, ret) ==
    /\ inserted' = [i \in ItemIds |->
                       IF ret /\ i = item.item_id THEN item
                       ELSE IF is_item_seen(table, i) THEN inserted[i]
                       ELSE NoItem]
    /\ marked' = {i \in marked : is_item_seen(table, i)}
                     \ (IF ret THEN {item.item_id} ELSE {})

(***************************************************************************)
(* The store driven directly through its methods.                          *)
(***************************************************************************)
\* the listings handed to add_item: both ids under both keywords, the
\* optional price present or absent
StoreListings ==
    {[item_id |-> id, title |-> <<"T", "-", id>>, url |-> "url",
      keyword |-> k,
      price |-> IF (id = "A") = (k = "new order vinyl") THEN None ELSE "9.99",
      currency |-> IF (id = "A") = (k = "new order vinyl") THEN None ELSE "GBP",
      image_url |-> "img", condition |-> "Used", seller |-> "bob",
      listing_date |-> "2024-11-08 12:30"] :
        id \in ItemIds, k \in Keywords}

Call_add_item(item) ==
    LET r == add_item(seen_items, item, now)
    IN  /\ seen_items' = r.table
        /\ calls' = Logged([NoCall EXCEPT
                       !.op = "add_item", !.item = item,
                       !.item_id = item.item_id, !.ret = r.ret,
                       !.raised = r.raised,
                       !.absent_before = ~is_item_seen(seen_items, item.item_id),
                       !.total_before = get_stats(seen_items, now).total_items,
                       !.total_after = get_stats(r.table, now).total_items,
                       !.changed = (r.table /= seen_items)])
        /\ Bookkeeping(r.table, item, r.ret)
        /\ UNCHANGED <<aux, bot, notice, proc, cfg, now, parsed, loop>>

Call_mark_as_notified(item_id) ==
    LET table == mark_as_notified(seen_items, item_id)
    IN  /\ seen_items' = table
        /\ calls' = Logged([NoCall EXCEPT
                       !.op = "mark_as_notified", !.item_id = item_id,
                       !.absent_before = ~is_item_seen(seen_items, item_id),
                       !.notified_before =
                           (\E r \in seen_items :
                               r.item_id = item_id /\ r.notified = 1),
                       !.changed = (table /= seen_items)])
        /\ inserted' = inserted
        /\ marked' = marked \cup {i \in {item_id} : is_item_seen(seen_items, i)}
        /\ UNCHANGED <<aux, bot, notice, proc, cfg, now, parsed, loop>>

Call_get_recent_items(limit, keyword) ==
    \E rows \in get_recent_items(seen_items, limit, keyword) :
        /\ calls' = Logged([NoCall EXCEPT
                       !.op = "get_recent_items", !.rows = rows])
        /\ UNCHANGED <<aux, bot, notice, proc, cfg, seen_items, now, inserted, marked, parsed, loop>>

Call_cleanup_old_items(days) ==
    LET r == cleanup_old_items(seen_items, days, now)
    IN  /\ seen_items' = r.table
        /\ calls' = Logged([NoCall EXCEPT
                       !.op = "cleanup_old_items",
                       !.changed = (r.table /= seen_items)])
        /\ Bookkeeping(r.table, NoItem, FALSE)
        /\ UNCHANGED <<aux, bot, notice, proc, cfg, now, parsed, loop>>

\* time passes between two runs
Tick ==
    /\ pc \in {"idle", "done"}
    /\ now < MaxTime
    /\ now' = now + 1
    /\ UNCHANGED <<aux, bot, notice, proc, cfg, seen_items, calls, inserted, marked, parsed, loop>>

InitStore ==
    /\ cfg = DefaultConfig
    /\ seen_items = {}
    /\ now = 0
    /\ calls = <<>>
    /\ inserted = [i \in ItemIds |-> NoItem]
    /\ marked = {}
    /\ parsed = NoParse
    /\ InitLoop
    /\ InitRest

NextStore ==
    \/ \E item \in StoreListings : Call_add_item(item)
    \/ \E id \in ItemIds : Call_mark_as_notified(id)
    \/ \E limit \in 0..MaxLimit, k \in Keywords \cup {None} :
           Call_get_recent_items(limit, k)
    \/ \E days \in 0..MaxDays : Call_cleanup_old_items(days)
    \/ Tick

SpecStore == InitStore /\ [][NextStore]_vars

(***************************************************************************)
(* Claims on the store.                                                    *)
(***************************************************************************)
\* the last two calls are add_item(L), add_item(L) and L's id was absent
AddedTwice ==
    /\ Len(calls) = 2
    /\ calls[1].op = "add_item"
    /\ calls[2].op = "add_item"
    /\ calls[1].item = calls[2].item
    /\ calls[1].absent_before

\* C1: two calls of add_item(L) in a row, on a store without L's item_id,
\* return (True, False); the second call leaves the table as it was and
\* get_stats()['total_items'] is one more than before the two calls.
C1_AddItemTwice ==
    AddedTwice =>
        /\ calls[1].ret /\ ~calls[1].raised
        /\ ~calls[2].ret /\ ~calls[2].raised
        /\ ~calls[2].changed
        /\ calls[2].total_before = calls[1].total_after
        /\ calls[2].total_after = calls[1].total_before + 1
        /\ get_stats(seen_items, now).total_items = calls[2].total_after

\* the two calls happened on a store that already held another listing
C1_Witness ==
    /\ AddedTwice
    /\ calls[1].total_before = 1
    /\ calls[2].total_after = 2
    /\ ~calls[2].ret

\* the last call read rows back
ReadBack == calls /= <<>> /\ calls[Len(calls)].op = "get_recent_items"

\* a row as read back carries the values of the dict it was inserted from
SameFields(row, item) ==
    /\ row.item_id = item.item_id
    /\ row.title = item.title
    /\ row.price = item.price
    /\ row.currency = item.currency
    /\ row.url = item.url
    /\ row.image_url = item.image_url
    /\ row.condition_display = item.condition
    /\ row.seller_username = item.seller
    /\ row.listing_date = item.listing_date
    /\ row.search_keyword = item.keyword

\* C9: every row get_recent_items returns has the field values of the
\* add_item call that inserted it; its notified flag is 1 exactly when
\* mark_as_notified was called for its id since the insert; and a
\* mark_as_notified on a row already marked leaves the table unchanged.
C9_RoundTrip ==
    /\ ReadBack =>
          \A i \in 1..Len(calls[Len(calls)].rows) :
              LET row == calls[Len(calls)].rows[i]
              IN  /\ row.item_id \in ItemIds
                  /\ SameFields(row, inserted[row.item_id])
                  /\ row.notified \in {0, 1}
                  /\ row.notified = 1 <=> row.item_id \in marked
    /\ \A c \in 1..Len(calls) :
          /\ calls[c].op = "add_item" /\ calls[c].ret
                => calls[c].changed
          /\ calls[c].op = "mark_as_notified" /\ calls[c].notified_before
                => ~calls[c].changed

\* a second mark_as_notified of a row, then the row read back with its flag
\* set and the price it was inserted with
C9_Witness ==
    /\ Len(calls) = 2
    /\ calls[1].op = "mark_as_notified"
    /\ calls[1].notified_before
    /\ calls[2].op = "get_recent_items"
    /\ \E i \in 1..Len(calls[2].rows) :
          /\ calls[2].rows[i].item_id = calls[1].item_id
          /\ calls[2].rows[i].notified = 1
          /\ calls[2].rows[i].price = "9.99"

(***************************************************************************)
(* One application of a parser to a response of one listing, over every    *)
(* configuration and listing of the sets below.                            *)
(***************************************************************************)
TitleChars == {"b", "B", "x"}

\* every text over TitleChars of length lo..MaxTitleLen
Texts(lo) == UNION {[1..n -> TitleChars] : n \in lo..MaxTitleLen}

\* EXCLUDE_KEYWORDS as set in the environment: unset, one word, a one-letter
\* word after another word, a word with blanks around it, a blank entry
ExcludeEnvs ==
    {<<>>, << <<" ", "b", " ">> >>, << <<" ">>, <<"X">> >>}
        \cup {<<w>> : w \in Texts(1)}
        \cup {<< <<"x", "x">>, <<c>> >> : c \in TitleChars}

\* LOCATED_IN as set in the environment, split at the commas
LocatedIns ==
    {<<>>, <<GB>>, <<US>>, << <<"d", "e">>, <<" ", "g", "b">> >>}

SiteIds == {"EBAY_UK", "EBAY_US", "EBAY_GB"}

ParseConfigs ==
    {[DefaultConfig EXCEPT !.EXCLUDE_KEYWORDS_ENV = e, !.LOCATED_IN = l,
                           !.EBAY_SITE_ID = s] :
        e \in ExcludeEnvs, l \in LocatedIns, s \in SiteIds}

\* the location fields a payload may carry
Locations ==
    {[city |-> NoneS, postalCode |-> NoneS, country |-> NoneS, shipTo |-> NoneS],
     [city |-> NoneS, postalCode |-> NoneS, country |-> GB, shipTo |-> NoneS],
     [city |-> NoneS, postalCode |-> NoneS, country |-> US, shipTo |-> NoneS],
     [city |-> <<"Y", "o", "r", "k", ",", " ", "U", "n", "i", "t", "e", "d",
                 " ", "K", "i", "n", "g", "d", "o", "m">>,
      postalCode |-> NoneS, country |-> NoneS, shipTo |-> NoneS],
     [city |-> <<"R", "e", "n", "o", ",", " ", "U", "n", "i", "t", "e", "d",
                 " ", "S", "t", "a", "t", "e", "s">>,
      postalCode |-> NoneS, country |-> NoneS, shipTo |-> NoneS],
     [city |-> <<"L", "y", "o", "n">>, postalCode |-> <<"6", "9">>,
      country |-> <<"F", "R">>, shipTo |-> NoneS],
     [city |-> NoneS, postalCode |-> NoneS, country |-> NoneS,
      shipTo |-> <<"W", "o", "r", "l", "d", "w", "i", "d", "e">>],
     [city |-> NoneS, postalCode |-> NoneS, country |-> NoneS, shipTo |-> GB]}

\* a remote listing with the given id, title and location fields
Listing(id, title, loc) ==
    [itemId |-> id, title |-> title, url |-> "url", price |-> "9.99",
     currency |-> "GBP", image |-> "img", condition |-> "Used",
     seller |-> "bob", startTime |-> "2024-11-08 12:30",
     city |-> loc.city, postalCode |-> loc.postalCode,
     country |-> loc.country, shipTo |-> loc.shipTo]

NoLocation ==
    [city |-> NoneS, postalCode |-> NoneS, country |-> NoneS, shipTo |-> NoneS]

\* the listings the parsers are tried on: every title with every location,
\* and the payloads that make the per-item parse raise
ParseListings ==
    {Listing("A", t, l) : t \in Texts(0), l \in Locations}
        \cup {[Listing("A", <<"x">>, NoLocation) EXCEPT !.url = None],
              [Listing("A", <<"x">>, NoLocation) EXCEPT !.title = NoneS],
              [Listing("A", <<"x">>, NoLocation) EXCEPT !.startTime = "not-a-date"]}

ApplyBrowseParser(raw) ==
    /\ parsed = NoParse
    /\ parsed' = [api |-> "browse", listings |-> <<raw>>,
                  out |-> parse_browse_response(<<raw>>, cfg.SEARCH_KEYWORDS[1],
                                                cfg, now)]
    /\ UNCHANGED <<aux, bot, notice, proc, cfg, seen_items, now, calls, inserted, marked, loop>>

ApplyFindingParser(raw) ==
    /\ parsed = NoParse
    /\ parsed' = [api |-> "finding", listings |-> <<raw>>,
                  out |-> parse_finding_response(<<raw>>, cfg.SEARCH_KEYWORDS[1],
                                                 cfg)]
    /\ UNCHANGED <<aux, bot, notice, proc, cfg, seen_items, now, calls, inserted, marked, loop>>

InitParse ==
    /\ cfg \in ParseConfigs
    /\ seen_items = {}
    /\ now = 0
    /\ calls = <<>>
    /\ inserted = [i \in ItemIds |-> NoItem]
    /\ marked = {}
    /\ parsed = NoParse
    /\ InitLoop
    /\ InitRest

NextParse ==
    \/ \E raw \in ParseListings : ApplyBrowseParser(raw)
    \/ \E raw \in ParseListings : ApplyFindingParser(raw)

SpecParse == InitParse /\ [][NextParse]_vars

(***************************************************************************)
(* Claims on the parsers.                                                  *)
(***************************************************************************)
\* two characters are the same letter, whatever their case
SameLetter(a, b) ==
    \/ a = b
    \/ \E i \in 1..Len(LowerLetters) :
          {a, b} = {LowerLetters[i], UpperLetters[i]}

\* word occurs in title as a literal substring, case-insensitively
OccursIn(word, title) ==
    \E k \in 0..(Len(title) - Len(word)) :
        \A j \in 1..Len(word) : SameLetter(title[k + j], word[j])

\* the title contains an entry of the configured exclusion list
HasExcludedWord(title) ==
    \E i \in 1..Len(EXCLUDE_KEYWORDS(cfg)) :
        OccursIn(EXCLUDE_KEYWORDS(cfg)[i], title)

\* C4: no listing in the list a parser returns has a title that contains,
\* case-insensitively, an entry of the configured exclusion list, on either
\* API path and under every location and site setting.
C4_ExcludedNeverReturned ==
    \A i \in 1..Len(parsed.out) : ~HasExcludedWord(parsed.out[i].title)

\* a listing that only the exclusion filter can drop (its location passes),
\* whose title differs in case from the exclusion word, was parsed and dropped
C4_Witness ==
    /\ parsed.api = "finding"
    /\ parsed.out = <<>>
    /\ Len(parsed.listings) = 1
    /\ parsed.listings[1].title = <<"x", "B">>
    /\ EXCLUDE_KEYWORDS(cfg) = << <<"x", "x">>, <<"b">> >>
    /\ parsed.listings[1].country = GB
    /\ located_in_codes(cfg) = <<GB>>

\* a payload that exposes none of the location fields
CarriesNoLocation(raw) ==
    /\ raw.city = NoneS
    /\ raw.postalCode = NoneS
    /\ raw.country = NoneS
    /\ raw.shipTo = NoneS

\* the marketplace of the search is the one the code knows to stand for a
\* requested code: the GB marketplace, with GB among the requested codes
MarketplaceVerified ==
    /\ get_marketplace_id(cfg) = "EBAY_GB"
    /\ \E i \in 1..Len(located_in_codes(cfg)) : located_in_codes(cfg)[i] = GB

\* a listing that parses and that the exclusion filter lets through
Admissible(raw) ==
    /\ raw.itemId /= None /\ raw.title /= NoneS /\ raw.url /= None
    /\ raw.startTime /= "not-a-date"
    /\ ~HasExcludedWord(raw.title)

\* C5: with LOCATED_IN configured, a listing without any location data that
\* parses and is not excluded by its title is in the parser's output if and
\* only if the marketplace is verified for a requested code (GB on the GB
\* marketplace), in the modern and in the legacy parser alike.
C5_NoLocationTrust ==
    (/\ parsed.api \in {"browse", "finding"}
     /\ cfg.LOCATED_IN /= <<>>
     /\ CarriesNoLocation(parsed.listings[1])
     /\ Admissible(parsed.listings[1]))
        => (parsed.out /= <<>> <=> MarketplaceVerified)

\* the legacy parser kept a listing without location data: gb was requested
\* in lower case, after another code, on the UK site
C5_Witness ==
    /\ parsed.api = "finding"
    /\ CarriesNoLocation(parsed.listings[1])
    /\ cfg.LOCATED_IN = << <<"d", "e">>, <<" ", "g", "b">> >>
    /\ cfg.EBAY_SITE_ID = "EBAY_UK"
    /\ Len(parsed.out) = 1

(***************************************************************************)
(* tracker.py: the search client.  A reply is what a request produced: a   *)
(* 200 answer with its payload, another status, an exception out of        *)
(* requests or response.json(), or a 200 answer whose payload has not the   *)
(* expected shape.                                                         *)
(***************************************************************************)

\* EbayTracker.get_oauth_token: token says a token was returned, requested
\* that the token endpoint was asked.  The clock counts minutes, so the 60
\* second buffer is one tick.
\* Variant: the token is held for the whole of expires_in
get_oauth_token_no_buffer(tok, exp, t, reply) ==
    IF tok /\ t < exp
    THEN [token |-> TRUE, access_token |-> tok, token_expires_at |-> exp,
          requested |-> FALSE]
    ELSE IF reply.kind = "ok"
         THEN [token |-> TRUE, access_token |-> TRUE,
               token_expires_at |-> t + reply.expires_in,
               requested |-> TRUE]
         ELSE [token |-> FALSE, access_token |-> tok,
               token_expires_at |-> exp, requested |-> TRUE]

\* A 200 answer without expires_in ("no_expiry") raises after access_token
\* was assigned: the new token is kept with the old expiry time and None is
\* returned.
get_oauth_token(tok, exp, t, reply) ==
    IF tok /\ t < exp
    THEN [token |-> TRUE, access_token |-> tok, token_expires_at |-> exp,
          requested |-> FALSE]
    ELSE IF reply.kind = "ok"
         THEN [token |-> TRUE, access_token |-> TRUE,
               token_expires_at |-> t + reply.expires_in - 1,
               requested |-> TRUE]
         ELSE [token |-> FALSE,
               access_token |-> IF reply.kind = "no_expiry" THEN TRUE ELSE tok,
               token_expires_at |-> exp, requested |-> TRUE]

\* Variant: the try block is missing, an exception of the request or of
\* the payload leaves the method
search_finding_api_unguarded(reply, keyword, c) ==
    IF reply.kind = "ok"
    THEN [raised |-> FALSE,
          ret    |-> parse_finding_response(reply.listing, keyword, c)]
    ELSE [raised |-> reply.kind \in {"exception", "malformed"}, ret |-> <<>>]

\* EbayTracker.search_finding_api: a 200 answer is parsed; another status
\* and every exception give []; a payload of the wrong shape is caught by
\* the parser's own try block, which returns the empty list it has
search_finding_api(reply, keyword, c) ==
    IF reply.kind = "ok"
    THEN [raised |-> FALSE,
          ret    |-> parse_finding_response(reply.listing, keyword, c)]
    ELSE [raised |-> FALSE, ret |-> <<>>]

\* the request get_oauth_token made, if it made one
TokenRequest(tk) == IF tk.requested THEN <<"token">> ELSE <<>>

\* Variant: a Browse request that fails is sent once more before the
\* legacy path is taken
SearchRequests_retry(tk, browseReply) ==
    TokenRequest(tk)
    \o (IF tk.token
        THEN IF browseReply.kind = "ok" THEN <<"browse">>
             ELSE <<"browse", "browse">>
        ELSE <<>>)
    \o (IF tk.token /\ browseReply.kind = "ok" THEN <<>> ELSE <<"finding">>)

\* the requests one search_browse_api call sends, in order: the token
\* exchange unless the cached token is used, the Browse request when there
\* is a token, the Finding request when there is no token or the Browse
\* request did not give a 200 answer that parses
SearchRequests(tk, browseReply) ==
    TokenRequest(tk)
    \o (IF tk.token THEN <<"browse">> ELSE <<>>)
    \o (IF tk.token /\ browseReply.kind = "ok" THEN <<>> ELSE <<"finding">>)

\* a plausible bug: a Browse answer that is not 200 gives [] at once
\* instead of the result of the legacy path
search_browse_api_no_fallback(tok, exp, t, tokenReply, browseReply, findingReply, keyword, c) ==
    LET tk == get_oauth_token(tok, exp, t, tokenReply)
        fb == search_finding_api(findingReply, keyword, c)
    IN  IF ~tk.token
        THEN [raised |-> fb.raised, ret |-> fb.ret, api |-> "finding",
              requests |-> TokenRequest(tk) \o <<"finding">>,
              requested |-> tk.requested, access_token |-> tk.access_token,
              token_expires_at |-> tk.token_expires_at]
        ELSE [raised |-> FALSE,
              ret |-> IF browseReply.kind = "ok"
                      THEN parse_browse_response(browseReply.listing,
                                                 keyword, c, t)
                      ELSE <<>>,
              api |-> "browse",
              requests |-> TokenRequest(tk) \o <<"browse">>,
              requested |-> tk.requested, access_token |-> tk.access_token,
              token_expires_at |-> tk.token_expires_at]

\* EbayTracker.search_browse_api: without a token, on a status other than
\* 200 and on every exception of the try block it returns what
\* search_finding_api returns; api names the path that gave the result
search_browse_api(tok, exp, t, tokenReply, browseReply, findingReply, keyword, c) ==
    LET tk == get_oauth_token(tok, exp, t, tokenReply)
        fb == search_finding_api(findingReply, keyword, c)
    IN  IF tk.token /\ browseReply.kind = "ok"
        THEN [raised |-> FALSE,
              ret |-> parse_browse_response(browseReply.listing, keyword,
                                            c, t),
              api |-> "browse",
              requests |-> SearchRequests(tk, browseReply),
              requested |-> tk.requested, access_token |-> tk.access_token,
              token_expires_at |-> tk.token_expires_at]
        ELSE [raised |-> fb.raised, ret |-> fb.ret, api |-> "finding",
              requests |-> SearchRequests(tk, browseReply),
              requested |-> tk.requested, access_token |-> tk.access_token,
              token_expires_at |-> tk.token_expires_at]

(***************************************************************************)
(* notifier.py: the notification of one new item.                          *)
(***************************************************************************)

\* The db argument of Notifier: NoDb stands for db=None, any other value is
\* the list db.get_active_subscribers() returns
NoDb == NoneS

\* Notifier.__init__: the recipients.  They stay [] when messaging is not
\* enabled; otherwise the store's active subscribers when a store was
\* passed, the configured chat ids when none was
Notifier_chat_ids(c, db) ==
    IF ~is_telegram_enabled(c) THEN <<>>
    ELSE IF db /= NoDb THEN db
    ELSE c.TELEGRAM_CHAT_IDS

\* The result of a notifier call: raised, the value returned, and the sends
\* attempted in order (recipient, photo or text, what the send did)
NoSends == [raised |-> FALSE, ret |-> FALSE, sent |-> <<>>]

SendKind(item) == IF Truthy(item.image_url) THEN "photo" ELSE "text"

Attempt(chat_ids, kind, sends, i) == [chat_id |-> chat_ids[i], kind |-> kind, result |-> sends[i]]

\* Variant: the first failed send ends the loop
send_new_item_notification_aborts(item, c, chat_ids, sends) ==
    LET failed == {i \in 1..Len(chat_ids) : sends[i] /= "ok"}
        last   == IF failed = {} THEN Len(chat_ids)
                  ELSE CHOOSE i \in failed : \A j \in failed : i <= j
    IN  IF ~is_telegram_enabled(c) THEN NoSends
        ELSE [raised |-> FALSE,
              ret    |-> \E i \in 1..last : sends[i] = "ok",
              sent   |-> [i \in 1..last |-> Attempt(chat_ids, SendKind(item), sends, i)]]

\* send_new_item_notification: returns False when messaging is not enabled;
\* otherwise sends to each recipient in turn, a photo when the item has an
\* image URL and a text message when not; both TelegramError and Exception
\* are caught inside the loop, so every recipient is attempted; returns
\* success_count > 0
send_new_item_notification(item, c, chat_ids, sends) ==
    IF ~is_telegram_enabled(c) THEN NoSends
    ELSE [raised |-> FALSE,
          ret    |-> \E i \in 1..Len(chat_ids) : sends[i] = "ok",
          sent   |-> [i \in 1..Len(chat_ids) |-> Attempt(chat_ids, SendKind(item), sends, i)]]

\* The loop of send_summary and send_error: text messages only, and only
\* TelegramError is caught, so another exception of a send leaves the loop
\* and the method
SendTextLoop(chat_ids, sends) ==
    LET escaped == {i \in 1..Len(chat_ids) : sends[i] = "Exception"}
        last    == IF escaped = {} THEN Len(chat_ids)
                   ELSE CHOOSE i \in escaped : \A j \in escaped : i <= j
    IN  [raised |-> escaped /= {},
         ret    |-> escaped = {} /\ \E i \in 1..last : sends[i] = "ok",
         sent   |-> [i \in 1..last |-> Attempt(chat_ids, "text", sends, i)]]

\* send_summary: returns False when messaging is not enabled or there are
\* no new items
send_summary(new_items_count, c, chat_ids, sends) ==
    IF ~is_telegram_enabled(c) \/ new_items_count = 0 THEN NoSends
    ELSE SendTextLoop(chat_ids, sends)

\* send_error: returns False when messaging is not enabled
send_error(c, chat_ids, sends) ==
    IF ~is_telegram_enabled(c) THEN NoSends
    ELSE SendTextLoop(chat_ids, sends)

\* Whether building the Notifier raises: the Bot is built only when
\* messaging is enabled
NotifierRaises(c, ctor) == is_telegram_enabled(c) /\ ctor = "raises"

\* notify_new_item: builds Notifier(db=db) and runs
\* send_new_item_notification
notify_new_item(item, c, db, ctor, sends) ==
    IF NotifierRaises(c, ctor) THEN [NoSends EXCEPT !.raised = TRUE]
    ELSE send_new_item_notification(item, c, Notifier_chat_ids(c, db), sends)

\* notify_summary: builds Notifier(db=db) and runs send_summary
notify_summary(new_items_count, c, db, ctor, sends) ==
    IF NotifierRaises(c, ctor) THEN [NoSends EXCEPT !.raised = TRUE]
    ELSE send_summary(new_items_count, c, Notifier_chat_ids(c, db), sends)

\* notify_error: builds Notifier(db=db) and runs send_error
notify_error(c, db, ctor, sends) ==
    IF NotifierRaises(c, ctor) THEN [NoSends EXCEPT !.raised = TRUE]
    ELSE send_error(c, Notifier_chat_ids(c, db), sends)

(***************************************************************************)
(* The poll loop: main() builds an EbayTracker and calls run() once per    *)
(* process; the store is purged between runs.                              *)
(***************************************************************************)
MaxRuns == 2

BoxSetEdition == <<"B", "o", "x", " ", "S", "e", "t">>

\* the two listings the remote side holds: A carries no location, B is
\* located in GB and its title holds "Box Set"
Catalog ==
    [A |-> Listing("A", <<"T", "a", "p", "e">>, NoLocation),
     B |-> Listing("B", BoxSetEdition,
                   [city |-> NoneS, postalCode |-> NoneS, country |-> GB,
                    shipTo |-> NoneS])]

\* the payloads a search may be answered with
Responses ==
    {<<>>, <<Catalog.A>>, <<Catalog.B>>, <<Catalog.A, Catalog.B>>,
     <<Catalog.B, Catalog.A>>}

TokenReplies ==
    {[kind |-> "ok", expires_in |-> e] : e \in {1, 2}}
        \cup {[kind |-> k, expires_in |-> 0] : k \in {"status", "exception"}}

ApiReplies ==
    {[kind |-> "ok", listing |-> r] : r \in Responses}
        \cup {[kind |-> k, listing |-> <<>>] :
                 k \in {"status", "exception", "malformed"}}

SendOutcomes == {"ok", "TelegramError", "Exception"}

\* a request that was not made has no reply
NoTokenReply == [kind |-> "unused", expires_in |-> 0]

NoApiReply == [kind |-> "unused", listing |-> <<>>]

BoxSetEnv == << <<" ", "B", "O", "X", " ", "s", "e", "t">> >>

\* the configurations the poll loop is run under: the defaults with two
\* keywords, and one keyword with an exclusion entry, a location filter on
\* a site that is or is not the verified one, and messaging off or on for
\* one or two recipients
RunConfigs ==
    {DefaultConfig,
     [DefaultConfig EXCEPT !.SEARCH_KEYWORDS = <<"joy division cassette">>,
                           !.EXCLUDE_KEYWORDS_ENV = BoxSetEnv],
     [DefaultConfig EXCEPT !.SEARCH_KEYWORDS = <<"joy division cassette">>,
                           !.EXCLUDE_KEYWORDS_ENV = BoxSetEnv,
                           !.TELEGRAM_BOT_TOKEN = "token",
                           !.TELEGRAM_CHAT_IDS = <<"chat-1", "chat-2">>],
     [DefaultConfig EXCEPT !.SEARCH_KEYWORDS = <<"joy division cassette">>,
                           !.EXCLUDE_KEYWORDS_ENV = BoxSetEnv,
                           !.LOCATED_IN = <<GB>>,
                           !.TELEGRAM_BOT_TOKEN = "token",
                           !.TELEGRAM_CHAT_IDS = <<"chat-1">>],
     [DefaultConfig EXCEPT !.SEARCH_KEYWORDS = <<"joy division cassette">>,
                           !.LOCATED_IN = <<GB>>,
                           !.EBAY_SITE_ID = "EBAY_UK",
                           !.TELEGRAM_BOT_TOKEN = "token",
                           !.TELEGRAM_CHAT_IDS = <<"chat-1">>]}

\* what the remote side answered to one search: the API that answered with
\* 200, if one did, and the listings of its payload
Answer(api, reply) ==
    [api      |-> IF reply.kind = "ok" THEN api ELSE "none",
     listings |-> {reply.listing[i] : i \in DOMAIN reply.listing}]

\* an exception raised by op: its kind and the progress of the run so far
Fault(op, kind, att) ==
    [op |-> op, kind |-> kind, seen |-> seen_items, attempts |-> att,
     searched |-> Len(remote)]

\* main(): a new process builds the tracker, EbayTracker.__init__ calling
\* Config.validate() first, and enters run()
RunStart ==
    /\ pc \in {"idle", "done"}
    /\ runNo < MaxRuns
    /\ runNo' = runNo + 1
    /\ status' = "running"
    /\ errorNotice' = NoErrorNotice
    /\ dispatched' = {}
    /\ handler' = "none"
    /\ IF validate(cfg).raised
       THEN /\ pc' = "config_raised"
            /\ fault' = Fault("validate", "ValueError", <<>>)
            /\ UNCHANGED <<kwIdx, items, idx, new_items, total_new_items,
                           stats, access_token, token_expires_at, attempts,
                           inserts, prevRemote, remote, repeated, purgedCur>>
       ELSE /\ pc' = "search"
            /\ fault' = NoFault
            /\ kwIdx' = 1
            /\ items' = <<>>
            /\ idx' = 0
            /\ new_items' = 0
            /\ total_new_items' = 0
            /\ stats' = NoStats
            /\ access_token' = FALSE
            /\ token_expires_at' = 0
            /\ attempts' = <<>>
            /\ inserts' = 0
            /\ prevRemote' = IF runNo >= 1 /\ ~purgedCur THEN remote ELSE <<>>
            /\ remote' = <<>>
            /\ repeated' = (runNo >= 1 /\ ~purgedCur)
            /\ purgedCur' = FALSE
    /\ carried' = {r.item_id : r \in {q \in seen_items : q.notified = 0}}
    /\ UNCHANGED <<message, tokenLog, cut, race, bot, notice, cfg, seen_items, now,
                   storeHist, parsed, lastSearch, outcome, liveInserts,
                   totalInserts>>

\* run(): items = self.search_browse_api(keyword)
Search(tokenReply, browseReply, findingReply) ==
    /\ pc = "search"
    /\ LET keyword == cfg.SEARCH_KEYWORDS[kwIdx]
           res == search_browse_api(access_token, token_expires_at, now,
                                    tokenReply, browseReply, findingReply,
                                    keyword, cfg)
           answered    == IF res.api = "browse" THEN browseReply
                          ELSE findingReply
           alike       == /\ repeated
                          /\ prevRemote /= <<>>
                          /\ prevRemote[1] = Answer(res.api, answered)
       IN  /\ access_token' = res.access_token
           /\ token_expires_at' = res.token_expires_at
           /\ lastSearch' = [token |-> tokenReply.kind,
                             browse |-> browseReply.kind,
                             finding |-> findingReply.kind,
                             listing |-> findingReply.listing,
                             keyword |-> keyword,
                             requests |-> res.requests]
           /\ IF res.raised
              THEN /\ pc' = "search_raised"
                   /\ fault' = Fault("search", "Exception", attempts)
                   /\ UNCHANGED <<items, remote, repeated, prevRemote>>
              ELSE /\ pc' = "found"
                   /\ UNCHANGED fault
                   /\ items' = res.ret
                   /\ remote' = Append(remote, Answer(res.api, answered))
                   /\ repeated' = alike
                   /\ prevRemote' = IF alike THEN Tail(prevRemote) ELSE <<>>
    /\ idx' = 0
    /\ new_items' = 0
    /\ UNCHANGED <<aux, bot, notice, status, errorNotice, dispatched, handler,
                   cfg, seen_items, now, storeHist, parsed, runNo, kwIdx,
                   total_new_items, stats, attempts, outcome, inserts,
                   liveInserts, totalInserts, purgedCur>>

\* run(): print the number of items found and enter the item loop
BeginItems ==
    /\ pc = "found"
    /\ pc' = "items"
    /\ idx' = 1
    /\ lastSearch' = NoSearch
    /\ UNCHANGED <<aux, bot, notice, proc, cfg, seen_items, now, storeHist, parsed, runNo, kwIdx,
                   items, new_items, total_new_items, stats, access_token,
                   token_expires_at, attempts, outcome, inserts, liveInserts,
                   totalInserts, remote, prevRemote, repeated, purgedCur>>

\* the exceptions the store raises in the model: sqlite3.Error for the
\* failures of the engine, ValueError for a value that cannot be bound
\* (sqlite3 raises UnicodeEncodeError, a ValueError, on a title that holds
\* a lone surrogate)
NoDbError == "none"

\* run(): if self.db.add_item(item): count it (tracker.py:519-527); nothing
\* around the call catches what add_item raises
AddItemStep(dbError) ==
    /\ pc = "items"
    /\ idx <= Len(items)
    /\ LET item == items[idx]
           res  == add_item(seen_items, item, now)
       IN  IF dbError /= NoDbError \/ res.raised
           THEN /\ pc' = "store_raised"
                /\ fault' = Fault("add_item",
                                  IF dbError /= NoDbError THEN dbError
                                  ELSE "sqlite3.Error", attempts)
                /\ UNCHANGED <<seen_items, idx, new_items, total_new_items,
                               outcome, inserts, liveInserts, totalInserts>>
           ELSE /\ seen_items' = res.table
                /\ UNCHANGED fault
                /\ IF res.ret
                   THEN /\ new_items' = new_items + 1
                        /\ total_new_items' = total_new_items + 1
                        /\ inserts' = inserts + 1
                        /\ liveInserts' =
                             [liveInserts EXCEPT ![item.item_id] = @ + 1]
                        /\ totalInserts' =
                             [totalInserts EXCEPT ![item.item_id] = @ + 1]
                        /\ outcome' = [outcome EXCEPT ![item.item_id] = "none"]
                        /\ IF is_telegram_enabled(cfg)
                           THEN pc' = "notify" /\ idx' = idx
                           ELSE pc' = "items" /\ idx' = idx + 1
                   ELSE /\ pc' = "items"
                        /\ idx' = idx + 1
                        /\ UNCHANGED <<new_items, total_new_items, outcome,
                                       inserts, liveInserts, totalInserts>>
    /\ UNCHANGED <<aux, bot, notice, status, errorNotice, dispatched, handler,
                   cfg, now, storeHist, parsed, runNo, kwIdx, items, stats,
                   access_token, token_expires_at, lastSearch, attempts,
                   remote, prevRemote, repeated, purgedCur>>

\* the step of a run whose store works
AddItem == AddItemStep(NoDbError)

\* run(): the try block of tracker.py:531-537: notify_new_item(item,
\* db=None), then mark_as_notified.  The value notify_new_item returns is
\* not looked at: mark_as_notified runs unless notify_new_item raised.
\* except Exception catches what either of the two raises, and the item
\* loop goes on.
NotifyStep(ctor, sends, dbError) ==
    /\ pc = "notify"
    /\ LET item == items[idx]
           res  == notify_new_item(item, cfg, NoDb, ctor, sends)
           att  == Append(attempts, item.item_id)
       IN  /\ attempts' = att
           /\ dispatched' = dispatched \cup
                               {res.sent[i].chat_id : i \in DOMAIN res.sent}
           /\ IF res.raised
              THEN /\ outcome' = [outcome EXCEPT ![item.item_id] = "raised"]
                   /\ UNCHANGED <<seen_items, fault>>
              ELSE IF dbError /= NoDbError
              THEN /\ outcome' = [outcome EXCEPT ![item.item_id] =
                          IF res.ret THEN "delivered" ELSE "undelivered"]
                   /\ fault' = Fault("mark_as_notified", dbError, att)
                   /\ UNCHANGED seen_items
              ELSE /\ outcome' = [outcome EXCEPT ![item.item_id] =
                          IF res.ret THEN "delivered" ELSE "undelivered"]
                   /\ seen_items' = mark_as_notified(seen_items, item.item_id)
                   /\ UNCHANGED fault
    /\ pc' = "items"
    /\ idx' = idx + 1
    /\ UNCHANGED <<aux, bot, notice, status, errorNotice, handler, cfg, now,
                   storeHist, parsed, runNo, kwIdx, items,
                   new_items, total_new_items, stats, access_token,
                   token_expires_at, lastSearch, inserts, liveInserts,
                   totalInserts, remote, prevRemote, repeated, purgedCur>>

\* the step of a run whose store works
Notify(ctor, sends) == NotifyStep(ctor, sends, NoDbError)

\* run(): the end of a keyword that is not the last (tracker.py:539-542)
NextKeyword ==
    /\ pc = "items"
    /\ idx > Len(items)
    /\ kwIdx < Len(cfg.SEARCH_KEYWORDS)
    /\ pc' = "search"
    /\ kwIdx' = kwIdx + 1
    /\ items' = <<>>
    /\ idx' = 0
    /\ new_items' = 0
    /\ UNCHANGED <<aux, bot, notice, proc, cfg, seen_items, now, storeHist, parsed, runNo,
                   total_new_items, stats, access_token, token_expires_at,
                   lastSearch, attempts, outcome, inserts, liveInserts,
                   totalInserts, remote, prevRemote, repeated, purgedCur>>

\* run(): after the last keyword, the summary and the statistics
\* (tracker.py:544-552); main() returns and the tracker with its token is
\* gone
FinishStep(dbError) ==
    /\ pc = "items"
    /\ idx > Len(items)
    /\ kwIdx = Len(cfg.SEARCH_KEYWORDS)
    /\ IF dbError /= NoDbError
       THEN /\ pc' = "store_raised"
            /\ fault' = Fault("get_stats", dbError, attempts)
            /\ UNCHANGED <<stats, items, idx, new_items, access_token,
                           token_expires_at, status>>
       ELSE /\ pc' = "done"
            /\ status' = "exit 0"
            /\ stats' = get_stats(seen_items, now)
            /\ items' = <<>>
            /\ idx' = 0
            /\ new_items' = 0
            /\ access_token' = FALSE
            /\ token_expires_at' = 0
            /\ UNCHANGED fault
    /\ UNCHANGED <<aux, bot, notice, errorNotice, dispatched, handler, cfg,
                   seen_items, now, storeHist, parsed, runNo, kwIdx,
                   total_new_items, lastSearch, attempts, outcome, inserts,
                   liveInserts, totalInserts, remote, prevRemote, repeated,
                   purgedCur>>

\* the step of a run whose store works
Finish == FinishStep(NoDbError)

\* main(): the except clauses around EbayTracker() and tracker.run()
\* (tracker.py:561-574).  A ValueError, whatever raised it, is reported as a
\* configuration error; any other exception is printed and, when messaging
\* is enabled, passed to notify_error.  Both clauses return 1, and an
\* exception that notify_error raises ends the process with status 1 too.
MainExcept(ctor, sends) ==
    /\ pc \in {"config_raised", "search_raised", "store_raised"}
    /\ pc' = "exited"
    /\ status' = "exit 1"
    /\ IF fault.kind = "ValueError"
       THEN /\ handler' = "ValueError"
            /\ UNCHANGED errorNotice
       ELSE /\ handler' = "Exception"
            /\ IF is_telegram_enabled(cfg)
               THEN LET res == notify_error(cfg, NoDb, ctor, sends)
                    IN  errorNotice' = [called |-> TRUE,
                                        raised |-> res.raised,
                                        ret    |-> res.ret,
                                        sent   |-> res.sent]
               ELSE UNCHANGED errorNotice
    /\ UNCHANGED <<aux, bot, notice, dispatched, fault, cfg, seen_items, now,
                   storeHist, parsed, runNo, kwIdx, items, idx, new_items,
                   total_new_items, stats, access_token, token_expires_at,
                   lastSearch, attempts, outcome, inserts, liveInserts,
                   totalInserts, remote, prevRemote, repeated, purgedCur>>

\* Database.cleanup_old_items called between two runs
Cleanup(days) ==
    /\ pc \in {"idle", "done"}
    /\ LET res == cleanup_old_items(seen_items, days, now)
       IN  /\ res.deleted > 0
           /\ seen_items' = res.table
           /\ liveInserts' = [i \in ItemIds |->
                                 IF is_item_seen(res.table, i)
                                 THEN liveInserts[i] ELSE 0]
           /\ outcome' = [i \in ItemIds |->
                             IF is_item_seen(res.table, i)
                             THEN outcome[i] ELSE "none"]
    /\ purgedCur' = TRUE
    /\ UNCHANGED <<aux, bot, notice, proc, cfg, now, storeHist, parsed, pc, runNo, kwIdx, items, idx,
                   new_items, total_new_items, stats, access_token,
                   token_expires_at, lastSearch, attempts, inserts,
                   totalInserts, remote, prevRemote, repeated>>

\* the replies to the requests a search makes: the token endpoint is asked
\* unless a fresh token is held, the Browse API when there is a token, the
\* Finding API when the Browse API did not answer with 200
TokenRequests ==
    IF access_token /\ now < token_expires_at THEN {NoTokenReply}
    ELSE TokenReplies

BrowseRequests(tokenReply) ==
    IF tokenReply.kind \in {"unused", "ok"} THEN ApiReplies
    ELSE {NoApiReply}

FindingRequests(tokenReply, browseReply) ==
    IF browseReply.kind = "ok" THEN {NoApiReply} ELSE ApiReplies

Init ==
    /\ cfg \in RunConfigs
    /\ seen_items = {}
    /\ now = 0
    /\ calls = <<>>
    /\ inserted = [i \in ItemIds |-> NoItem]
    /\ marked = {}
    /\ parsed = NoParse
    /\ InitLoop
    /\ InitRest

Next ==
    \/ RunStart
    \/ \E tokenReply \in TokenRequests :
         \E browseReply \in BrowseRequests(tokenReply) :
           \E findingReply \in FindingRequests(tokenReply, browseReply) :
              Search(tokenReply, browseReply, findingReply)
    \/ BeginItems
    \/ AddItem
    \/ \E ctor \in {"ok", "raises"},
          sends \in [1..Len(cfg.TELEGRAM_CHAT_IDS) -> SendOutcomes] :
           Notify(ctor, sends)
    \/ NextKeyword
    \/ Finish
    \/ \E days \in 0..MaxDays : Cleanup(days)
    \/ Tick

Spec == Init /\ [][Next]_vars

(***************************************************************************)
(* Claims about the poll loop.                                             *)
(***************************************************************************)

\* no two rows of the store carry the same item_id
OneRowPerItem ==
    \A r1, r2 \in seen_items : r1.item_id = r2.item_id => r1 = r2

\* the listing of the catalog reappeared in an answer of the current run
Reappeared(id) ==
    \E k \in DOMAIN remote : \E l \in remote[k].listings : l.itemId = id

\* C2, as stated: the store holds at most one row per item_id, and over
\* every sequence of poll runs and purges add_item returns True for a given
\* item_id at most once.
C2_InsertedAtMostOnceEver ==
    /\ OneRowPerItem
    /\ \A i \in ItemIds : totalInserts[i] <= 1

\* C2, amended: the store holds at most one row per item_id, and add_item
\* returns True for a given item_id at most once for as long as its row is
\* not purged; a row is held exactly for the ids inserted since.
C2_InsertedOncePerRow ==
    /\ OneRowPerItem
    /\ \A i \in ItemIds :
          /\ liveInserts[i] <= 1
          /\ liveInserts[i] = 1 <=> is_item_seen(seen_items, i)

\* a second run met listing A again, which the first run had inserted
C2_Witness ==
    /\ pc = "done"
    /\ runNo = 2
    /\ Reappeared("A")
    /\ inserts = 0
    /\ totalInserts["A"] = 1
    /\ is_item_seen(seen_items, "A")

\* C3: a run that follows a completed run with nothing purged in between and
\* gets the same remote answer for every keyword makes no call to
\* notify_new_item, adds no row and returns 0.
C3_SecondRunIdempotent ==
    (pc = "done" /\ repeated) =>
        /\ attempts = <<>>
        /\ inserts = 0
        /\ total_new_items = 0

\* a second run with messaging enabled that repeated a first run which had
\* stored and notified a listing
C3_Witness ==
    /\ pc = "done"
    /\ repeated
    /\ runNo = 2
    /\ is_telegram_enabled(cfg)
    /\ Reappeared("A")
    /\ \E r \in seen_items : r.item_id = "A" /\ r.notified = 1

\* the modern path of the last search failed: no token, or no 200 answer
\* with a payload of the expected shape
ModernFailed ==
    \/ lastSearch.token \in {"status", "exception"}
    \/ lastSearch.browse \in {"status", "exception", "malformed"}

C7_FailedNotificationStaysUnnotified ==
    /\ pc \notin {"search_raised", "store_raised"}
    /\ \A r \in seen_items :
          outcome[r.item_id] \in {"raised", "undelivered"} => r.notified = 0

\* C8, as stated: a row whose notified flag is true belongs to an item whose
\* notification was delivered to at least one recipient.
C8_NotifiedImpliesDelivered ==
    \A r \in seen_items : r.notified = 1 => outcome[r.item_id] = "delivered"

\* the scenario of C10: the first run, on an empty store, with one keyword
\* and the exclusion entry "box set", was answered with the listings A and B
\* and has just returned
EndToEndScenario ==
    /\ pc = "done"
    /\ runNo = 1
    /\ ~purgedCur
    /\ Len(cfg.SEARCH_KEYWORDS) = 1
    /\ cfg.EXCLUDE_KEYWORDS_ENV = BoxSetEnv
    /\ Len(remote) = 1
    /\ remote[1].api \in {"browse", "finding"}
    /\ remote[1].listings = {Catalog.A, Catalog.B}

\* one row (A), one notification attempt (for A), one item of the keyword
EndToEndResult ==
    /\ {r.item_id : r \in seen_items} = {"A"}
    /\ inserts = 1
    /\ attempts = <<"A">>
    /\ cfg.SEARCH_KEYWORDS[1] \in DOMAIN stats.items_by_keyword
    /\ stats.items_by_keyword[cfg.SEARCH_KEYWORDS[1]] = 1

\* C10, as stated: in the scenario the run adds exactly the row of A, makes
\* exactly one notification attempt, for A, and the statistics count one
\* item for the keyword.
C10_EndToEnd == EndToEndScenario => EndToEndResult

\* C10, amended: the same, when messaging is enabled and no location filter
\* is configured.
C10_EndToEndWithMessaging ==
    (EndToEndScenario /\ is_telegram_enabled(cfg) /\ cfg.LOCATED_IN = <<>>)
        => EndToEndResult

C10_Witness ==
    /\ EndToEndScenario
    /\ is_telegram_enabled(cfg)
    /\ cfg.LOCATED_IN = <<>>
    /\ EndToEndResult

(***************************************************************************)
(* The subscribers table and bot.py.  database.py of this tree defines no  *)
(* subscriber method; the five the bot and the notifier call are modelled  *)
(* from the record store contract.  A row is [chat_id, is_active,          *)
(* subscribed_at].                                                         *)
(***************************************************************************)
MaxLog == 4

\* a chat id holds a row, active or not
HasRow(table, chat_id) == \E r \in table : r.chat_id = chat_id

\* is_subscribed(chat_id) -> bool
is_subscribed(table, chat_id) ==
    \E r \in table : r.chat_id = chat_id /\ r.is_active

\* a plausible bug: an inactive subscriber who opts in again gets a second
\* row instead of the old one being reactivated
add_subscriber_duplicates(table, chat_id, t) ==
    IF is_subscribed(table, chat_id)
    THEN [is_new |-> FALSE, table |-> table]
    ELSE [is_new |-> TRUE,
          table  |-> table \cup {[chat_id |-> chat_id, is_active |-> TRUE,
                                  subscribed_at |-> t]}]

\* add_subscriber(chat_id, ...) -> is_new: inserts or reactivates; returns
\* whether the subscriber was previously absent or inactive
add_subscriber(table, chat_id, t) ==
    IF ~HasRow(table, chat_id)
    THEN [is_new |-> TRUE,
          table  |-> table \cup {[chat_id |-> chat_id, is_active |-> TRUE,
                                  subscribed_at |-> t]}]
    ELSE IF is_subscribed(table, chat_id)
         THEN [is_new |-> FALSE, table |-> table]
         ELSE [is_new |-> TRUE,
               table  |-> {IF r.chat_id = chat_id
                           THEN [r EXCEPT !.is_active = TRUE] ELSE r :
                              r \in table}]

\* remove_subscriber(chat_id) -> was_active
remove_subscriber(table, chat_id) ==
    [was_active |-> is_subscribed(table, chat_id),
     table      |-> {IF r.chat_id = chat_id
                     THEN [r EXCEPT !.is_active = FALSE] ELSE r :
                        r \in table}]

\* active_subscribers() -> list<chat_id>: every listing of the active ids
get_active_subscribers(table) ==
    Orderings({r.chat_id : r \in {x \in table : x.is_active}})

\* a plausible bug: the two wordings of /start are swapped
start_command_swapped(table, chat_id, t) ==
    LET res == add_subscriber(table, chat_id, t)
    IN  [reply |-> IF res.is_new THEN "returning" ELSE "new",
         table |-> res.table]

\* bot.py start_command: the welcome of a new subscriber or the
\* welcome-back of a returning one
start_command(table, chat_id, t) ==
    LET res == add_subscriber(table, chat_id, t)
    IN  [reply |-> IF res.is_new THEN "new" ELSE "returning",
         table |-> res.table]

\* bot.py stop_command
stop_command(table, chat_id) ==
    LET res == remove_subscriber(table, chat_id)
    IN  [reply |-> IF res.was_active THEN "was active" ELSE "not active",
         table |-> res.table]

\* bot.py status_command
status_command(table, chat_id) ==
    [reply |-> IF is_subscribed(table, chat_id) THEN "active" ELSE "inactive",
     table |-> table]

\* the log of a chat keeps its last MaxLog commands
LogBot(chat_id, cmd, res) ==
    LET e == [cmd |-> cmd, reply |-> res.reply,
              absent_before |-> ~HasRow(subscribers, chat_id),
              subscribed_after |-> is_subscribed(res.table, chat_id)]
        l == Append(botLog[chat_id], e)
    IN  [botLog EXCEPT ![chat_id] =
            IF Len(l) > MaxLog THEN Tail(l) ELSE l]

\* a user sends /start
Start(chat_id) ==
    /\ LET res == start_command(subscribers, chat_id, now)
       IN  /\ subscribers' = res.table
           /\ botLog' = LogBot(chat_id, "start", res)
    /\ UNCHANGED <<aux, cfg, seen_items, now, storeHist, parsed, loop, notice,
                   proc>>

\* a user sends /stop
Stop(chat_id) ==
    /\ LET res == stop_command(subscribers, chat_id)
       IN  /\ subscribers' = res.table
           /\ botLog' = LogBot(chat_id, "stop", res)
    /\ UNCHANGED <<aux, cfg, seen_items, now, storeHist, parsed, loop, notice,
                   proc>>

\* a user sends /status
Status(chat_id) ==
    /\ LET res == status_command(subscribers, chat_id)
       IN  /\ subscribers' = res.table
           /\ botLog' = LogBot(chat_id, "status", res)
    /\ UNCHANGED <<aux, cfg, seen_items, now, storeHist, parsed, loop, notice,
                   proc>>

InitBot ==
    /\ cfg = [DefaultConfig EXCEPT !.TELEGRAM_BOT_TOKEN = "token"]
    /\ seen_items = {}
    /\ now = 0
    /\ calls = <<>>
    /\ inserted = [i \in ItemIds |-> NoItem]
    /\ marked = {}
    /\ parsed = NoParse
    /\ InitLoop
    /\ InitRest

NextBot ==
    \/ \E c \in ChatIds : Start(c)
    \/ \E c \in ChatIds : Stop(c)
    \/ \E c \in ChatIds : Status(c)

SpecBot == InitBot /\ [][NextBot]_vars

\* the last four commands of the chat were /start on a chat without a row,
\* /start, /stop and /status
SubscribeTwice(c) ==
    /\ Len(botLog[c]) >= 4
    /\ LET n == Len(botLog[c])
       IN  /\ botLog[c][n - 3].cmd = "start"
           /\ botLog[c][n - 3].absent_before
           /\ botLog[c][n - 2].cmd = "start"
           /\ botLog[c][n - 1].cmd = "stop"
           /\ botLog[c][n].cmd = "status"

\* C11: for a chat id without a row, the first subscribe answers "new", the
\* second "returning", is_subscribed is true after each, the following
\* unsubscribe answers "was active" and the status after it "inactive".
C11_SubscribeScenario ==
    \A c \in ChatIds :
        SubscribeTwice(c) =>
            LET n == Len(botLog[c])
            IN  /\ botLog[c][n - 3].reply = "new"
                /\ botLog[c][n - 3].subscribed_after
                /\ botLog[c][n - 2].reply = "returning"
                /\ botLog[c][n - 2].subscribed_after
                /\ botLog[c][n - 1].reply = "was active"
                /\ botLog[c][n].reply = "inactive"
                /\ ~is_subscribed(subscribers, c)

\* chat 123 went through the scenario while chat 456 is subscribed
C11_Witness ==
    /\ SubscribeTwice("123")
    /\ is_subscribed(subscribers, "456")

\* no two rows of the subscribers table carry the same chat_id
OneRowPerChat ==
    \A r1, r2 \in subscribers : r1.chat_id = r2.chat_id => r1 = r2

\* a step keeps every row, changing at most its is_active; the command it
\* logs leaves its chat subscribed after /start and unsubscribed after /stop
RowsKept ==
    /\ \A r \in subscribers : \E r2 \in subscribers' :
          \/ r2 = r
          \/ r2 = [r EXCEPT !.is_active = ~r.is_active]
    /\ \A c \in ChatIds :
          botLog'[c] /= botLog[c] =>
             LET e == botLog'[c][Len(botLog'[c])]
             IN  /\ e.cmd = "start" => is_subscribed(subscribers', c)
                 /\ e.cmd = "stop" => /\ ~is_subscribed(subscribers', c)
                                      /\ HasRow(subscribers, c)
                                            => HasRow(subscribers', c)
                 /\ \A r \in subscribers :
                       r.chat_id /= c => r \in subscribers'

\* C12: after any sequence of subscribe and unsubscribe commands the table
\* holds at most one row per chat_id and no row is ever removed: subscribing
\* an inactive chat_id reactivates its row, unsubscribing only clears
\* is_active.
C12_OneRowNeverRemoved ==
    /\ []OneRowPerChat
    /\ [][RowsKept]_vars

\* chat 123 unsubscribed and subscribed again, and holds one active row
\* beside the row of chat 456
C12_Witness ==
    /\ Len(botLog["123"]) >= 2
    /\ LET n == Len(botLog["123"])
       IN  /\ botLog["123"][n - 1].cmd = "stop"
           /\ botLog["123"][n - 1].reply = "was active"
           /\ botLog["123"][n].cmd = "start"
           /\ ~botLog["123"][n].absent_before
    /\ is_subscribed(subscribers, "123")
    /\ Cardinality(subscribers) = 2

(***************************************************************************)
(* The notifier called directly: notify_new_item, notify_summary and       *)
(* notify_error of notifier.py, once, on a configuration and a subscriber  *)
(* table                                                                   *)
(***************************************************************************)

MaxRecipients == 2

\* Config.TELEGRAM_CHAT_IDS with n chat ids
ConfiguredChatIds(n) == [i \in 1..n |-> ToString(i)]

NotifyConfigs ==
    {[DefaultConfig EXCEPT !.TELEGRAM_BOT_TOKEN = token,
                           !.TELEGRAM_CHAT_IDS = ConfiguredChatIds(n)] :
        token \in {"", "token"}, n \in 0..MaxRecipients}

\* subscriber tables the bot's commands lead to
SubscriberTables ==
    LET one      == add_subscriber({}, "123", 0).table
        two      == add_subscriber(one, "456", 0).table
    IN  {{}, one, remove_subscriber(one, "123").table, two,
         remove_subscriber(two, "456").table}

NotifyItems ==
    {[NoItem EXCEPT !.item_id = "A", !.title = <<"T">>, !.url = "url",
                    !.keyword = "joy division cassette",
                    !.image_url = image] : image \in {None, "", "image-url"}}

\* the db argument: None, or the store, whose get_active_subscribers()
\* gives the active chat ids in some order
DbArguments == {NoDb} \cup get_active_subscribers(subscribers)

\* messaging is configured for a call: the bot credential is present and
\* the recipient set of the call is not empty
Configured(c, db) ==
    /\ c.TELEGRAM_BOT_TOKEN /= ""
    /\ (IF db /= NoDb THEN db ELSE c.TELEGRAM_CHAT_IDS) /= <<>>

Notice(op, item, count, db, ctor, sends, res) ==
    [op         |-> op,
     enabled    |-> is_telegram_enabled(cfg),
     configured |-> Configured(cfg, db),
     image      |-> Truthy(item.image_url),
     count      |-> count,
     recipients |-> Notifier_chat_ids(cfg, db),
     ctor       |-> ctor,
     outcomes   |-> sends,
     sent       |-> res.sent,
     ret        |-> res.ret,
     raised     |-> res.raised]

Call_notify_new_item(item, db, ctor, sends) ==
    /\ notice = NoNotice
    /\ notice' = Notice("notify_new_item", item, 0, db, ctor, sends,
                        notify_new_item(item, cfg, db, ctor, sends))
    /\ UNCHANGED <<aux, cfg, seen_items, now, storeHist, parsed, loop, bot, proc>>

Call_notify_summary(count, db, ctor, sends) ==
    /\ notice = NoNotice
    /\ notice' = Notice("notify_summary", NoItem, count, db, ctor, sends,
                        notify_summary(count, cfg, db, ctor, sends))
    /\ UNCHANGED <<aux, cfg, seen_items, now, storeHist, parsed, loop, bot, proc>>

Call_notify_error(db, ctor, sends) ==
    /\ notice = NoNotice
    /\ notice' = Notice("notify_error", NoItem, 0, db, ctor, sends,
                        notify_error(cfg, db, ctor, sends))
    /\ UNCHANGED <<aux, cfg, seen_items, now, storeHist, parsed, loop, bot, proc>>

InitNotify ==
    /\ cfg \in NotifyConfigs
    /\ seen_items = {}
    /\ now = 0
    /\ calls = <<>>
    /\ inserted = [i \in ItemIds |-> NoItem]
    /\ marked = {}
    /\ parsed = NoParse
    /\ InitLoop
    /\ subscribers \in SubscriberTables
    /\ botLog = [c \in ChatIds |-> <<>>]
    /\ notice = NoNotice
    /\ InitProc
    /\ InitAux

NextNotify ==
    \E db \in DbArguments, ctor \in {"ok", "raises"} :
       \E sends \in [1..Len(Notifier_chat_ids(cfg, db)) -> SendOutcomes] :
          \/ \E item \in NotifyItems : Call_notify_new_item(item, db, ctor, sends)
          \/ \E count \in 0..1 : Call_notify_summary(count, db, ctor, sends)
          \/ Call_notify_error(db, ctor, sends)

SpecNotify == InitNotify /\ [][NextNotify]_vars

\* every recipient of the call was attempted, in order, with the outcome
\* the send had
AllAttempted ==
    /\ Len(notice.sent) = Len(notice.recipients)
    /\ \A i \in 1..Len(notice.recipients) :
          /\ notice.sent[i].chat_id = notice.recipients[i]
          /\ notice.sent[i].result = notice.outcomes[i]

SomeSendSucceeded == \E i \in 1..Len(notice.sent) : notice.sent[i].result = "ok"

\* the call ran with messaging enabled and a Bot that was built
Delivering(op) ==
    /\ notice.op = op
    /\ notice.enabled
    /\ notice.ctor = "ok"

\* C13: notify_new_item with messaging enabled: a failure on one recipient
\* is caught, every recipient of the list is attempted whatever its length,
\* each send is a photo with caption when the item has an image URL and a
\* text message when it has none, and the call returns true iff at least one
\* send succeeded.
C13_NewItemPerRecipient ==
    Delivering("notify_new_item") =>
       /\ ~notice.raised
       /\ AllAttempted
       /\ \A i \in 1..Len(notice.sent) :
             notice.sent[i].kind = IF notice.image THEN "photo" ELSE "text"
       /\ notice.ret <=> SomeSendSucceeded

\* a photo call whose first recipient failed with a non-Telegram error and
\* whose second recipient was reached
C13_Witness ==
    /\ Delivering("notify_new_item")
    /\ notice.image
    /\ Len(notice.recipients) = 2
    /\ notice.outcomes[1] = "Exception"
    /\ notice.sent[2].result = "ok"
    /\ notice.ret

\* C14: notify_summary and notify_error with messaging enabled recover a
\* delivery error per recipient whatever the error: the remaining recipients
\* are attempted and the call returns normally, true iff at least one send
\* succeeded.
C14_SummaryAndErrorRecover ==
    (\/ Delivering("notify_summary") /\ notice.count > 0
     \/ Delivering("notify_error")) =>
       /\ ~notice.raised
       /\ AllAttempted
       /\ notice.ret <=> SomeSendSucceeded

\* C15: when messaging is not configured (the bot credential is missing or
\* the recipient set is empty) notify_new_item, notify_summary and
\* notify_error perform no send and return false.
C15_NotConfiguredNoSend ==
    (notice.op /= "none" /\ ~notice.configured /\ ~notice.raised) =>
       /\ notice.sent = <<>>
       /\ ~notice.ret

\* notify_error with a credential and an empty subscriber list, and
\* notify_new_item without a credential
C15_Witness ==
    /\ notice.op \in {"notify_new_item", "notify_summary", "notify_error"}
    /\ ~notice.configured
    /\ notice.sent = <<>>
    /\ ~notice.ret
    /\ \/ notice.enabled /\ notice.recipients = <<>>
       \/ ~notice.enabled /\ cfg.TELEGRAM_CHAT_IDS /= <<>>

(***************************************************************************)
(* One tracker process from main() to its completion status, with a store  *)
(* that may raise and a subscribers table the bot has written              *)
(***************************************************************************)

\* the configurations of the process: two keywords without messaging, one
\* keyword with messaging and two configured recipients, one of them a chat
\* that also talks to the bot, and the two ways Config.validate() rejects
\* a configuration
MainConfigs ==
    LET messaging == [DefaultConfig EXCEPT
                         !.SEARCH_KEYWORDS = <<"joy division cassette">>,
                         !.TELEGRAM_BOT_TOKEN = "token",
                         !.TELEGRAM_CHAT_IDS = <<"123", "chat-2">>]
    IN  {DefaultConfig, messaging,
         [messaging EXCEPT !.EBAY_APP_ID = ""],
         [messaging EXCEPT !.SEARCH_KEYWORDS = <<>>]}

AddItemFaults == {NoDbError, "sqlite3.Error", "ValueError"}

StoreFaults == {NoDbError, "sqlite3.Error"}

\* main() is entered once per process
MainStart == runNo = 0 /\ RunStart

InitMain ==
    /\ cfg \in MainConfigs
    /\ seen_items = {}
    /\ now = 0
    /\ calls = <<>>
    /\ inserted = [i \in ItemIds |-> NoItem]
    /\ marked = {}
    /\ parsed = NoParse
    /\ InitLoop
    /\ subscribers \in SubscriberTables
    /\ botLog = [c \in ChatIds |-> <<>>]
    /\ notice = NoNotice
    /\ InitProc
    /\ InitAux

NextMain ==
    \/ MainStart
    \/ \E tokenReply \in TokenRequests :
         \E browseReply \in BrowseRequests(tokenReply) :
           \E findingReply \in FindingRequests(tokenReply, browseReply) :
              Search(tokenReply, browseReply, findingReply)
    \/ BeginItems
    \/ \E dbError \in AddItemFaults : AddItemStep(dbError)
    \/ \E ctor \in {"ok", "raises"},
          sends \in [1..Len(cfg.TELEGRAM_CHAT_IDS) -> SendOutcomes],
          dbError \in StoreFaults :
           NotifyStep(ctor, sends, dbError)
    \/ NextKeyword
    \/ \E dbError \in StoreFaults : FinishStep(dbError)
    \/ \E ctor \in {"ok", "raises"},
          sends \in [1..Len(cfg.TELEGRAM_CHAT_IDS) -> SendOutcomes] :
           MainExcept(ctor, sends)

SpecMain == InitMain /\ [][NextMain]_vars

StoreOps == {"add_item", "mark_as_notified", "get_stats"}

\* C16: a storage exception raised during a run by add_item,
\* mark_as_notified or get_stats is not recovered: it propagates out of
\* run(), no further item or keyword is processed, and the process ends
\* with a non-zero completion status.
C16_StorageErrorAbortsRun ==
    fault.op \in StoreOps =>
       /\ pc \in {"store_raised", "exited"}
       /\ seen_items = fault.seen
       /\ attempts = fault.attempts
       /\ Len(remote) = fault.searched
       /\ status /= "exit 0"
       /\ pc = "exited" => status = "exit 1"

\* C17: with the search API key absent or the keyword list empty the
\* process ends in main's configuration-error clause with status 1, and up
\* to there no search request was issued, no row written and no
\* notification sent.
C17_InvalidConfigAbortsStartup ==
    ((cfg.EBAY_APP_ID = "" \/ cfg.SEARCH_KEYWORDS = <<>>) /\ runNo >= 1) =>
       /\ pc \in {"config_raised", "exited"}
       /\ pc = "exited" => (status = "exit 1" /\ handler = "ValueError")
       /\ status /= "exit 0"
       /\ lastSearch = NoSearch
       /\ remote = <<>>
       /\ seen_items = {}
       /\ attempts = <<>>
       /\ dispatched = {}
       /\ ~errorNotice.called

\* a process with messaging configured and no keyword has exited
C17_Witness ==
    /\ cfg.SEARCH_KEYWORDS = <<>>
    /\ is_telegram_enabled(cfg)
    /\ pc = "exited"
    /\ status = "exit 1"
    /\ handler = "ValueError"

\* an error that is not a configuration error escaped run()
EscapedRun == pc = "exited" /\ fault.op /= "validate"

\* C18: when an error that is not a configuration error escapes the run,
\* main attempts one error notification when messaging is enabled and
\* returns a non-zero status, also when that notification fails.
C18_UnexpectedErrorNotified ==
    EscapedRun =>
       /\ status = "exit 1"
       /\ errorNotice.called <=> is_telegram_enabled(cfg)

\* C20: a chat_id that is an active subscriber when the run dispatches a
\* new item gets a delivery attempt, and a chat_id that has unsubscribed
\* gets none.
C20_DispatchToSubscribers ==
    (/\ attempts /= <<>>
     /\ outcome[attempts[Len(attempts)]] /= "raised") =>
       \A c \in ChatIds :
          /\ is_subscribed(subscribers, c) => c \in dispatched
          /\ (HasRow(subscribers, c) /\ ~is_subscribed(subscribers, c))
                => c \notin dispatched

(***************************************************************************)
(* A keyword whose searches both fail, in the poll loop                    *)
(***************************************************************************)

\* the run is inside the keyword loop, after the search of keyword kwIdx
InKeyword == pc \in {"found", "items", "notify"}

\* neither API answered the search of the current keyword with 200
BothFailed == InKeyword /\ remote[kwIdx].api = "none"

\* the keywords are searched one by one in the configured order
SearchedInOrder ==
    /\ pc /= "search_raised"
    /\ pc = "search" => Len(remote) = kwIdx - 1
    /\ InKeyword => Len(remote) = kwIdx
    /\ pc = "done" => Len(remote) = Len(cfg.SEARCH_KEYWORDS)

\* a failed keyword has an empty result and no new item
EmptyResult == BothFailed => (items = <<>> /\ new_items = 0)

\* during a failed keyword nothing is written and nothing notified, and the
\* loop moves on to the next keyword or to the end of the run
NothingForFailedKeyword ==
    BothFailed =>
       /\ seen_items' = seen_items
       /\ attempts' = attempts
       /\ pc' \in {"items", "search", "done"}
       /\ pc' = "search" => kwIdx' = kwIdx + 1

\* C19: when both the modern and the legacy search fail for one keyword the
\* loop gets an empty result for it, writes and notifies nothing for it,
\* and still searches and processes every remaining keyword in order.
C19_FailedKeywordSkipped ==
    /\ [](SearchedInOrder /\ EmptyResult)
    /\ [][NothingForFailedKeyword]_vars

\* a run whose first keyword failed on both APIs and whose second keyword
\* gave a new row
C19_Witness ==
    /\ pc = "done"
    /\ runNo = 1
    /\ Len(remote) = 2
    /\ remote[1].api = "none"
    /\ remote[2].api /= "none"
    /\ inserts >= 1

(***************************************************************************)
(* The text of a new-item notification: Notifier._format_item_message and  *)
(* the exchange-rate lookup of notifier.py, applied once to an item.       *)
(* Amounts of money are counted in hundredths, the rate of the CBR feed    *)
(* (GBP per RUB) in millionths.                                            *)
(***************************************************************************)

\* float(text) for the texts of the model: the value in hundredths, or
\* ValueError for a text that is not a number
FloatOf ==
    ("100.00" :> 10000) @@ ("5.00" :> 500) @@ ("0" :> 0) @@ ("1.05" :> 105)

ParseFloat(text) ==
    IF text \in DOMAIN FloatOf
    THEN [raised |-> FALSE, value |-> FloatOf[text]]
    ELSE [raised |-> TRUE, value |-> 0]

\* the ":,.0f" and ".1f" formats: n / d rounded to the nearest integer, a
\* tie to the even one
RoundHalfEven(n, d) ==
    LET q == n \div d
        r == n % d
    IN  IF 2 * r < d THEN q
        ELSE IF 2 * r > d THEN q + 1
        ELSE IF q % 2 = 0 THEN q ELSE q + 1

\* Notifier._get_exchange_rate: 1.0 / rates.GBP of a 200 answer, in
\* hundredths of a rouble per pound; None on another status, on a payload
\* without the rate and on every exception, a rate of 0 included
get_exchange_rate(reply) ==
    IF reply.kind = "ok" /\ reply.gbp /= 0
    THEN [none |-> FALSE, value |-> 100000000 \div reply.gbp]
    ELSE [none |-> TRUE, value |-> 0]

Part(line, text, amount) == [line |-> line, text |-> text, amount |-> amount]

\* the listing-type lines (notifier.py:129-141)
TypeParts(item, remaining) ==
    IF item.listing_type = "Auction"
    THEN <<Part("auction", "", 0)>> \o
         (IF Truthy(item.end_time) /\ Truthy(remaining)
          THEN <<Part("remaining", remaining, 0)>> ELSE <<>>)
    ELSE IF item.listing_type = "FixedPrice"
    THEN <<Part("buy_it_now", "", 0)>>
    ELSE <<>>

\* the shipping cost the conversion adds: 0 unless the item has a shipping
\* cost that float() accepts (notifier.py:159-166)
ShippingCost(item) ==
    IF Truthy(item.shipping_cost) /\ ~ParseFloat(item.shipping_cost).raised
    THEN ParseFloat(item.shipping_cost).value
    ELSE 0

\* Variant: the amount of an auction is halved as well
ConvertedParts_always_halved(item, reply) ==
    LET price == ParseFloat(item.price)
        rate  == get_exchange_rate(reply)
        rub   == (price.value + ShippingCost(item)) * rate.value
        note  == IF ShippingCost(item) > 0 THEN "shipping" ELSE ""
    IN  IF item.currency /= "GBP" \/ price.raised \/ rate.none THEN <<>>
        ELSE <<Part("per_person", note, RoundHalfEven(rub, 20000)),
               Part("rate", "", RoundHalfEven(rate.value, 10))>>

\* the rouble lines of a GBP price (notifier.py:168-191): none when float()
\* rejects the price or the lookup gives no rate; the half of the total for
\* a FixedPrice listing, the total for every other listing; then the rate
ConvertedParts(item, reply) ==
    LET price == ParseFloat(item.price)
        rate  == get_exchange_rate(reply)
        rub   == (price.value + ShippingCost(item)) * rate.value
        note  == IF ShippingCost(item) > 0 THEN "shipping" ELSE ""
    IN  IF item.currency /= "GBP" \/ price.raised \/ rate.none THEN <<>>
        ELSE <<IF item.listing_type = "FixedPrice"
               THEN Part("per_person", note, RoundHalfEven(rub, 20000))
               ELSE Part("total", note, RoundHalfEven(rub, 10000)),
               Part("rate", "", RoundHalfEven(rate.value, 10))>>

\* the price lines (notifier.py:143-191)
PriceParts(item, reply) ==
    IF ~(Truthy(item.price) /\ Truthy(item.currency)) THEN <<>>
    ELSE (IF item.listing_type = "Auction"
          THEN <<Part("bid", item.price, 0)>> \o
               (IF Truthy(item.bid_count)
                THEN <<Part("bids", item.bid_count, 0)>> ELSE <<>>)
          ELSE <<Part("price", item.price, 0)>>)
         \o (IF ShippingCost(item) > 0
             THEN <<Part("shipping", "", ShippingCost(item))>> ELSE <<>>)
         \o ConvertedParts(item, reply)

Optional(line, value) == IF Truthy(value) THEN <<Part(line, value, 0)>> ELSE <<>>

\* Notifier._format_item_message: the lines of the message, in order
format_item_message(item, remaining, reply) ==
    <<Part("header", "", 0), Part("title", item.title, 0)>>
    \o TypeParts(item, remaining)
    \o PriceParts(item, reply)
    \o Optional("condition", item.condition)
    \o Optional("seller", item.seller)
    \o Optional("listing_date", item.listing_date)
    \o Optional("keyword", item.keyword)
    \o <<Part("url", item.url, 0)>>

FormatItems ==
    {[NoListing EXCEPT !.title = "Tape", !.url = "url",
                       !.listing_type = type, !.end_time = end,
                       !.price = price, !.currency = currency,
                       !.shipping_cost = shipping, !.seller = seller] :
        type \in {None, "Auction", "FixedPrice"},
        end \in {None, "2024-11-08T12:30:00.000Z"},
        price \in {None, "100.00", "1.05", "n/a"},
        currency \in {None, "GBP", "USD"},
        shipping \in {None, "0", "5.00", "free"},
        seller \in {None, "bob"}}

RateReplies ==
    {[kind |-> "ok", gbp |-> 10526], [kind |-> "ok", gbp |-> 9756],
     [kind |-> "ok", gbp |-> 0], [kind |-> "no_rate", gbp |-> 0],
     [kind |-> "status", gbp |-> 0], [kind |-> "exception", gbp |-> 0]}

Format(item, remaining, reply) ==
    /\ message = NoMessage
    /\ message' = [op |-> "format", item |-> item, remaining |-> remaining,
                   reply |-> reply,
                   out |-> format_item_message(item, remaining, reply)]
    /\ UNCHANGED <<cfg, seen_items, now, storeHist, parsed, loop, bot,
                   notice, proc, tokenLog, cut, carried, race>>

InitFormat ==
    /\ cfg = [DefaultConfig EXCEPT !.TELEGRAM_BOT_TOKEN = "token",
                                   !.TELEGRAM_CHAT_IDS = <<"123">>]
    /\ seen_items = {}
    /\ now = 0
    /\ calls = <<>>
    /\ inserted = [i \in ItemIds |-> NoItem]
    /\ marked = {}
    /\ parsed = NoParse
    /\ InitLoop
    /\ InitRest

NextFormat ==
    \E item \in FormatItems, remaining \in {None, "2d 3h"},
       reply \in RateReplies : Format(item, remaining, reply)

SpecFormat == InitFormat /\ [][NextFormat]_vars

\* the lines of the message that carry the given name
Lines(msg, line) == {i \in DOMAIN msg : msg[i].line = line}

\* the message without its rouble lines
WithoutConversion(msg) ==
    SelectSeq(msg, LAMBDA p : p.line \notin {"per_person", "total", "rate"})

\* a GBP price that float() accepts was formatted
GbpPrice ==
    /\ message.op = "format"
    /\ message.item.currency = "GBP"
    /\ Truthy(message.item.price)
    /\ ~ParseFloat(message.item.price).raised

\* price + shipping of the formatted item, in hundredths
TotalGbp == FloatOf[message.item.price] + ShippingCost(message.item)

\* the rate the lookup gave, in hundredths of a rouble per pound
RubPerGbp == 100000000 \div message.reply.gbp

LookupSucceeded == message.reply.kind = "ok" /\ message.reply.gbp /= 0

\* C21: for a GBP price with a successful exchange-rate lookup a FixedPrice
\* listing shows (price + shipping) * rate / 2, rounded to whole roubles,
\* as the per-person amount, and an auction shows the full
\* (price + shipping) * rate; with a failed lookup the message has no
\* converted line and is otherwise the message of a successful lookup.
C21_PriceConversion ==
    GbpPrice =>
       /\ (LookupSucceeded /\ message.item.listing_type = "FixedPrice") =>
             /\ Lines(message.out, "total") = {}
             /\ \E i \in DOMAIN message.out :
                   /\ Lines(message.out, "per_person") = {i}
                   /\ message.out[i].amount =
                         RoundHalfEven(TotalGbp * RubPerGbp, 2 * 10000)
       /\ (LookupSucceeded /\ message.item.listing_type = "Auction") =>
             /\ Lines(message.out, "per_person") = {}
             /\ \E i \in DOMAIN message.out :
                   /\ Lines(message.out, "total") = {i}
                   /\ message.out[i].amount =
                         RoundHalfEven(TotalGbp * RubPerGbp, 10000)
       /\ ~LookupSucceeded =>
             /\ Lines(message.out, "per_person") = {}
             /\ Lines(message.out, "total") = {}
             /\ \A ok \in {r \in RateReplies : r.kind = "ok" /\ r.gbp /= 0} :
                   message.out =
                      WithoutConversion(format_item_message(
                          message.item, message.remaining, ok))

\* 100.00 GBP with 5.00 GBP shipping at 95 roubles a pound: an auction
\* shows 9975 roubles
C21_Witness ==
    /\ GbpPrice
    /\ message.item.listing_type = "Auction"
    /\ message.item.price = "100.00"
    /\ message.item.shipping_cost = "5.00"
    /\ LookupSucceeded
    /\ RubPerGbp = 9500
    /\ \E i \in DOMAIN message.out :
          message.out[i].line = "total" /\ message.out[i].amount = 9975

(***************************************************************************)
(* The credential cache: get_oauth_token called again and again on one     *)
(* tracker while the clock advances                                        *)
(***************************************************************************)

\* what the token endpoint may answer: a token for two or three ticks, a
\* 200 answer without expires_in, another status, an exception
ExchangeReplies ==
    {[kind |-> "ok", expires_in |-> e] : e \in {2, 3}}
        \cup {[kind |-> k, expires_in |-> 0] :
                 k \in {"no_expiry", "status", "exception"}}

Call_get_oauth_token(reply) ==
    /\ pc = "idle"
    /\ LET res    == get_oauth_token(access_token, token_expires_at, now, reply)
           issues == res.requested /\ reply.kind = "ok"
       IN  /\ access_token' = res.access_token
           /\ token_expires_at' = res.token_expires_at
           /\ tokenLog' =
                 [called     |-> TRUE,
                  at         |-> now,
                  held       |-> access_token,
                  reply      |-> reply.kind,
                  requested  |-> res.requested,
                  token      |-> res.token,
                  issued     |-> IF issues THEN now ELSE tokenLog.issued,
                  expires_in |-> IF issues THEN reply.expires_in
                                 ELSE tokenLog.expires_in,
                  before     |-> [issued     |-> tokenLog.issued,
                                  expires_in |-> tokenLog.expires_in]]
    /\ UNCHANGED <<cfg, seen_items, now, storeHist, parsed, pc, runNo, kwIdx,
                   items, idx, new_items, total_new_items, stats, lastSearch,
                   attempts, outcome, inserts, liveInserts, totalInserts,
                   remote, prevRemote, repeated, purgedCur, bot, notice,
                   proc, message, cut, carried, race>>

InitToken ==
    /\ cfg = DefaultConfig
    /\ seen_items = {}
    /\ now = 0
    /\ calls = <<>>
    /\ inserted = [i \in ItemIds |-> NoItem]
    /\ marked = {}
    /\ parsed = NoParse
    /\ InitLoop
    /\ InitRest

NextToken ==
    \/ \E reply \in ExchangeReplies : Call_get_oauth_token(reply)
    \/ Tick

SpecToken == InitToken /\ [][NextToken]_vars

\* at the last call a token was held and the clock was before the time of
\* its issue + expires_in - 60 seconds (one tick)
CacheValid ==
    /\ tokenLog.held
    /\ tokenLog.at < tokenLog.before.issued + tokenLog.before.expires_in - 1

\* C22: get_oauth_token returns the cached token without an exchange
\* exactly while a token is held and the clock is before
\* (time of issue + expires_in - 60 s); otherwise it performs an exchange,
\* and a failed exchange returns no token.
C22_TokenCache ==
    tokenLog.called =>
       /\ tokenLog.requested <=> ~CacheValid
       /\ CacheValid => tokenLog.token
       /\ (tokenLog.requested /\ tokenLog.reply /= "ok") => ~tokenLog.token
       /\ (tokenLog.requested /\ tokenLog.reply = "ok") => tokenLog.token

\* a token issued at 0 for three ticks was used from the cache at 1 and
\* exchanged again at 2
C22_Witness ==
    /\ tokenLog.called
    /\ tokenLog.at = 2
    /\ tokenLog.held
    /\ tokenLog.before = [issued |-> 0, expires_in |-> 3]
    /\ tokenLog.requested
    /\ tokenLog.reply = "ok"

(***************************************************************************)
(* The requests of one search, in the poll loop                            *)
(***************************************************************************)

\* how often the last search sent a request of the given kind
Sent(kind) ==
    Cardinality({i \in DOMAIN lastSearch.requests :
                    lastSearch.requests[i] = kind})

\* C23: one search_browse_api call sends at most one credential exchange,
\* at most one modern and at most one legacy search request; after a failed
\* credential exchange it sends the legacy request and no modern one; a
\* request is sent again in no case, and the replies the call consumed are
\* those of the requests it sent.
C23_NoRetry ==
    pc = "found" =>
       /\ Sent("token") <= 1
       /\ Sent("browse") <= 1
       /\ Sent("finding") <= 1
       /\ Sent("token") = 1 <=> lastSearch.token /= "unused"
       /\ Sent("browse") = 1 <=> lastSearch.browse /= "unused"
       /\ Sent("finding") = 1 <=> lastSearch.finding /= "unused"
       /\ lastSearch.token \in {"status", "exception"} =>
             lastSearch.requests = <<"token", "finding">>
       /\ lastSearch.browse \in {"status", "exception", "malformed"} =>
             /\ Sent("finding") = 1
             /\ lastSearch.requests[Len(lastSearch.requests)] = "finding"
       /\ lastSearch.finding \in {"status", "exception", "malformed"} =>
             items = <<>>

\* the credential exchange failed and the legacy request was the only
\* search request
C23_Witness ==
    /\ pc = "found"
    /\ lastSearch.token = "exception"
    /\ lastSearch.requests = <<"token", "finding">>
    /\ lastSearch.finding = "ok"
    /\ items /= <<>>

(***************************************************************************)
(* The filters of the two parsers compared, on one listing                 *)
(***************************************************************************)

\* the listing handed to the parser
Parsed == parsed.listings[1]

\* the listing parses in both parsers
ParsesInBoth ==
    /\ parsed.api \in {"browse", "finding"}
    /\ Len(parsed.listings) = 1
    /\ ~ItemRaises(Parsed)
    /\ Parsed.startTime /= "not-a-date"

\* C24: for the same title, the same combined location string and the same
\* configuration the modern and the legacy parser make the same keep/drop
\* decision, the aliases of GB and US included.
C24_ParsersAgree ==
    (/\ ParsesInBoth
     /\ BrowseFullLocation(Parsed) = FindingFullLocation(Parsed))
        => /\ BrowseKeeps(Parsed, cfg) <=> FindingKeeps(Parsed, cfg)
           /\ parsed.out /= <<>> <=> FindingKeeps(Parsed, cfg)

\* the names a requested code is matched by: the code itself and, for GB
\* and US, the country names
NamesOf(code) ==
    IF code = GB THEN {GB, UNITED_KINGDOM, UK}
    ELSE IF code = US THEN {US, UNITED_STATES, USA}
    ELSE {code}

\* the combined location string the parser in use builds for the listing
FullLocation(raw) ==
    IF parsed.api = "browse" THEN BrowseFullLocation(raw)
    ELSE FindingFullLocation(raw)

\* the combined location string contains a requested code or an alias of it
LocationContainsCode(raw) ==
    \E i \in 1..Len(located_in_codes(cfg)) :
       \E name \in NamesOf(located_in_codes(cfg)[i]) :
          OccursIn(name, FullLocation(raw))

\* C25: with a location-inclusion list configured, every listing a parser
\* returns has a combined location string that contains a requested code or
\* its alias, or has an empty one and is trusted by the marketplace rule; a
\* listing that does neither is dropped, on both API paths.
C25_StrictLocationFilter ==
    (/\ parsed.api \in {"browse", "finding"}
     /\ Len(parsed.listings) = 1
     /\ cfg.LOCATED_IN /= <<>>)
        => /\ parsed.out /= <<>> =>
                \/ LocationContainsCode(Parsed)
                \/ FullLocation(Parsed) = <<>> /\ MarketplaceVerified
           /\ (/\ ~LocationContainsCode(Parsed)
               /\ ~(FullLocation(Parsed) = <<>> /\ MarketplaceVerified))
                 => parsed.out = <<>>

\* with GB requested, the legacy parser dropped a listing located in France
\* that its title would have let through
C25_Witness ==
    /\ parsed.api = "finding"
    /\ Len(parsed.listings) = 1
    /\ located_in_codes(cfg) = <<GB>>
    /\ Admissible(Parsed)
    /\ Parsed.country = <<"F", "R">>
    /\ parsed.out = <<>>

(***************************************************************************)
(* The parsers on responses of several items, some of which raise inside   *)
(* the per-item try block.                                                 *)
(***************************************************************************)
MaxResponse == 3

\* the items of a response: two that parse, one in France, one with an
\* excluded title, and the payloads that raise
ResponseListings ==
    {Listing("A", <<"b">>, [NoLocation EXCEPT !.country = GB]),
     Listing("B", <<"B", "b">>, NoLocation),
     Listing("B", <<"b">>, [NoLocation EXCEPT !.country = <<"F", "R">>]),
     Listing("A", <<"x">>, NoLocation),
     [Listing("A", <<"b">>, NoLocation) EXCEPT !.url = None],
     [Listing("B", <<"b">>, NoLocation) EXCEPT !.title = NoneS],
     [Listing("B", <<"b", "b">>, NoLocation) EXCEPT !.startTime = "not-a-date"]}

\* data['itemSummaries'] or searchResult.item
ParseResponses ==
    UNION {[1..n -> ResponseListings] : n \in 1..MaxResponse}

ResponseConfigs ==
    {[DefaultConfig EXCEPT !.EXCLUDE_KEYWORDS_ENV = e, !.LOCATED_IN = l,
                           !.EBAY_SITE_ID = "EBAY_UK"] :
        e \in {<<>>, << <<"x">> >>}, l \in {<<>>, <<GB>>}}

ParseBrowseResponse(summaries) ==
    /\ parsed = NoParse
    /\ parsed' = [api |-> "browse", listings |-> summaries,
                  out |-> parse_browse_response(summaries, cfg.SEARCH_KEYWORDS[1],
                                                cfg, now)]
    /\ UNCHANGED <<aux, bot, notice, proc, cfg, seen_items, now, calls, inserted, marked, loop>>

ParseFindingResponse(listing) ==
    /\ parsed = NoParse
    /\ parsed' = [api |-> "finding", listings |-> listing,
                  out |-> parse_finding_response(listing, cfg.SEARCH_KEYWORDS[1],
                                                 cfg)]
    /\ UNCHANGED <<aux, bot, notice, proc, cfg, seen_items, now, calls, inserted, marked, loop>>

InitResponse ==
    /\ cfg \in ResponseConfigs
    /\ seen_items = {}
    /\ now = 0
    /\ calls = <<>>
    /\ inserted = [i \in ItemIds |-> NoItem]
    /\ marked = {}
    /\ parsed = NoParse
    /\ InitLoop
    /\ InitRest

NextResponse ==
    \/ \E summaries \in ParseResponses : ParseBrowseResponse(summaries)
    \/ \E listing \in ParseResponses : ParseFindingResponse(listing)

SpecResponse == InitResponse /\ [][NextResponse]_vars

\* parsing the item raises in the parser in use
ParseRaises(raw) ==
    \/ raw.itemId = None
    \/ raw.title = NoneS
    \/ raw.url = None
    \/ parsed.api = "finding" /\ raw.startTime = "not-a-date"

\* the item passes the exclusion filter and the location filter of the
\* parser in use
PassesFilters(raw) ==
    /\ ~HasExcludedWord(raw.title)
    /\ cfg.LOCATED_IN /= <<>> =>
          IF parsed.api = "browse" THEN BrowseLocationMatches(raw, cfg)
          ELSE FindingLocationMatches(raw, cfg)

\* the positions of the response whose item parses and passes the filters
Survivors ==
    {i \in 1..Len(parsed.listings) :
        ~ParseRaises(parsed.listings[i]) /\ PassesFilters(parsed.listings[i])}

\* C26: an item whose parsing raises is skipped alone: the parser returns
\* every item of the response that parses and passes the filters, and only
\* those, in the order of the response.
C26_ParseErrorIsolated ==
    parsed.api \in {"browse", "finding"} =>
        /\ Len(parsed.out) = Cardinality(Survivors)
        /\ \A i \in Survivors :
              LET k == Cardinality({j \in Survivors : j <= i})
              IN  /\ parsed.out[k].item_id = parsed.listings[i].itemId
                  /\ parsed.out[k].title = parsed.listings[i].title

\* the second of three items raised in the legacy parser, the first and the
\* third were returned
C26_Witness ==
    /\ parsed.api = "finding"
    /\ Len(parsed.listings) = 3
    /\ ~ParseRaises(parsed.listings[1])
    /\ ParseRaises(parsed.listings[2])
    /\ Survivors = {1, 3}
    /\ Len(parsed.out) = 2
    /\ parsed.out[1].item_id = "A"
    /\ parsed.out[2].item_id = "B"

(***************************************************************************)
(* A run terminated from outside, and the runs after it.  The process     *)
(* ends between two statements of run(): killed, or interrupted from the  *)
(* keyboard, which main() catches only to return.  A process               *)
(* that ends inside add_item leaves no row unless the INSERT was committed *)
(* (database.py:82-97), which is the state before or after the AddItem     *)
(* step; one that ends inside the try block of tracker.py:531-537 has      *)
(* called notify_new_item or not, and has not marked the row.              *)
(***************************************************************************)

\* the process is terminated; sent says that it ended after notify_new_item
\* was called and before mark_as_notified committed
Terminate(sent) ==
    /\ pc \in {"search", "found", "items", "notify"}
    /\ sent => pc = "notify"
    /\ LET att == IF sent THEN Append(attempts, items[idx].item_id)
                  ELSE attempts
       IN  /\ attempts' = att
           /\ cut' = [happened |-> TRUE,
                      at       |-> pc,
                      sent     |-> sent,
                      item     |-> IF pc \in {"items", "notify"} /\ idx <= Len(items)
                                   THEN items[idx].item_id ELSE None,
                      run      |-> runNo,
                      seen     |-> seen_items,
                      attempts |-> cut.attempts \o att]
    /\ pc' = "idle"
    /\ status' = "terminated"
    /\ lastSearch' = NoSearch
    /\ UNCHANGED <<message, tokenLog, carried, race, bot, notice, errorNotice,
                   dispatched, handler, fault, cfg, seen_items, now, storeHist, parsed,
                   runNo, kwIdx, items, idx, new_items, total_new_items,
                   stats, access_token, token_expires_at, outcome, inserts,
                   liveInserts, totalInserts, remote, prevRemote, repeated,
                   purgedCur>>

\* messaging on, no filter: two keywords, or one
TerminatedConfigs ==
    {[DefaultConfig EXCEPT !.TELEGRAM_BOT_TOKEN = "token",
                           !.TELEGRAM_CHAT_IDS = <<"chat-1">>],
     [DefaultConfig EXCEPT !.SEARCH_KEYWORDS = <<"joy division cassette">>]}

InitTerminated ==
    /\ cfg \in TerminatedConfigs
    /\ seen_items = {}
    /\ now = 0
    /\ calls = <<>>
    /\ inserted = [i \in ItemIds |-> NoItem]
    /\ marked = {}
    /\ parsed = NoParse
    /\ InitLoop
    /\ InitRest

\* the searches of these runs: the modern API answers with a payload, or
\* the credential exchange fails and the legacy API answers or fails
TerminatedSearches ==
    {<<[kind |-> "ok", expires_in |-> 1], [kind |-> "ok", listing |-> r],
       NoApiReply>> : r \in Responses}
        \cup {<<[kind |-> "status", expires_in |-> 0], NoApiReply, f>> :
                 f \in {a \in ApiReplies : a.kind \in {"ok", "status"}}}

NextTerminated ==
    \/ RunStart
    \/ \E s \in TerminatedSearches : Search(s[1], s[2], s[3])
    \/ BeginItems
    \/ AddItem
    \/ \E ctor \in {"ok", "raises"},
          sends \in [1..Len(cfg.TELEGRAM_CHAT_IDS) -> SendOutcomes] :
           Notify(ctor, sends)
    \/ NextKeyword
    \/ Finish
    \/ \E sent \in BOOLEAN : Terminate(sent)

SpecTerminated == InitTerminated /\ [][NextTerminated]_vars

\* how often the id occurs in the list
Occurrences(id, list) == Cardinality({i \in 1..Len(list) : list[i] = id})

\* the current run follows a terminated one
Rerun == cut.happened /\ runNo > cut.run

\* C27: after a run was terminated at any point of an item's
\* check-insert-notify-mark sequence, running the poll loop again does not
\* repeat anything for the item: the rows the terminated run left are still
\* there as they were, no id has two rows or was inserted twice, and no id
\* was passed to notify_new_item both in a terminated run and in the run
\* after it, or twice in one of them.
C27_RerunIdempotent ==
    cut.happened =>
        /\ Rerun => cut.seen \subseteq seen_items
        /\ \A id \in ItemIds :
              /\ Cardinality({r \in seen_items : r.item_id = id}) <= 1
              /\ totalInserts[id] <= 1
              /\ Occurrences(id, cut.attempts)
                   + (IF Rerun THEN Occurrences(id, attempts) ELSE 0) <= 1

\* the run was terminated after A was passed to notify_new_item and before
\* its row was marked; the next run got A again from the remote side and
\* finished without a second row and without a notification
C27_Witness ==
    /\ cut.happened
    /\ cut.at = "notify"
    /\ cut.sent
    /\ cut.item = "A"
    /\ runNo = cut.run + 1
    /\ pc = "done"
    /\ \E i \in 1..Len(remote) : Catalog.A \in remote[i].listings
    /\ seen_items = cut.seen
    /\ \E r \in seen_items : r.item_id = "A" /\ r.notified = 0
    /\ attempts = <<>>

\* C28: an item whose row is in the store with notified = false when a run
\* ends keeps notified = false through the runs after it and is not passed
\* to notify_new_item again, as long as the row is there.
C28_UnnotifiedStays ==
    \A id \in carried :
        (\E r \in seen_items : r.item_id = id) =>
            /\ \A r \in seen_items : r.item_id = id => r.notified = 0
            /\ \A i \in 1..Len(attempts) : attempts[i] /= id

\* the notification of A raised in the first run; the second run got A
\* again and finished: the row is not marked, nothing was attempted
C28_Witness ==
    /\ runNo = 2
    /\ ~cut.happened
    /\ pc = "done"
    /\ "A" \in carried
    /\ outcome["A"] = "raised"
    /\ \E i \in 1..Len(remote) : Catalog.A \in remote[i].listings
    /\ \E r \in seen_items : r.item_id = "A" /\ r.notified = 0
    /\ attempts = <<>>

(***************************************************************************)
(* Two poll-loop processes on one store.  Each is in the item loop of      *)
(* run() with the same item.  add_item is two statements on two            *)
(* connections: is_item_seen opens its own, selects and closes             *)
(* (database.py:59-64), then the INSERT runs and commits in a second one   *)
(* (database.py:74-97); SQLite serialises the statements, and the PRIMARY  *)
(* KEY of seen_items rejects the INSERT of an id that is there with        *)
(* sqlite3.IntegrityError, which add_item and run() let through.           *)
(***************************************************************************)

\* the searches of both processes returned the item
Arrive(item) ==
    /\ race = NoRace
    /\ race' = [item |-> item,
                inv  |-> [p \in Invocations |->
                             [pc |-> "check", ret |-> "none",
                              notified |-> FALSE]]]
    /\ UNCHANGED <<message, tokenLog, cut, carried, cfg, seen_items, now,
                   storeHist, parsed, loop, bot, notice, proc>>

\* add_item: if self.is_item_seen(item['item_id']): return False
Check(p) ==
    /\ race.inv[p].pc = "check"
    /\ race' = [race EXCEPT !.inv[p] =
                   IF is_item_seen(seen_items, race.item.item_id)
                   THEN [pc |-> "next_item", ret |-> "False", notified |-> FALSE]
                   ELSE [pc |-> "insert", ret |-> "none", notified |-> FALSE]]
    /\ UNCHANGED <<message, tokenLog, cut, carried, cfg, seen_items, now,
                   storeHist, parsed, loop, bot, notice, proc>>

\* add_item: the INSERT and the commit, then return True; run() goes on to
\* the notification when messaging is enabled
Insert(p) ==
    /\ race.inv[p].pc = "insert"
    /\ LET ins == SqlInsert(seen_items, RowOf(race.item, now))
       IN  IF ins.ok
           THEN /\ seen_items' = ins.table
                /\ race' = [race EXCEPT !.inv[p] =
                               [pc |-> IF is_telegram_enabled(cfg)
                                       THEN "notify" ELSE "next_item",
                                ret |-> "True", notified |-> FALSE]]
           ELSE /\ UNCHANGED seen_items
                /\ race' = [race EXCEPT !.inv[p] =
                               [pc |-> "raised",
                                ret |-> "sqlite3.IntegrityError",
                                notified |-> FALSE]]
    /\ UNCHANGED <<message, tokenLog, cut, carried, cfg, now, storeHist,
                   parsed, loop, bot, notice, proc>>

\* run(): notify_new_item(item, db=None), then mark_as_notified unless it
\* raised
NotifyNew(p, ctor, sends) ==
    /\ race.inv[p].pc = "notify"
    /\ LET res == notify_new_item(race.item, cfg, NoDb, ctor, sends)
       IN  seen_items' = IF res.raised THEN seen_items
                         ELSE mark_as_notified(seen_items, race.item.item_id)
    /\ race' = [race EXCEPT !.inv[p] =
                   [pc |-> "next_item", ret |-> "True", notified |-> TRUE]]
    /\ UNCHANGED <<message, tokenLog, cut, carried, cfg, now, storeHist,
                   parsed, loop, bot, notice, proc>>

\* the items the two processes are handed
RaceItems ==
    {BrowseItem(Catalog[i], k, 0) : i \in ItemIds, k \in Keywords}

\* the store before: empty, or holding a row of B
RaceTables == {{}, {RowOf(FindingItem(Catalog.B, "new order vinyl"), 0)}}

RaceConfigs ==
    {DefaultConfig,
     [DefaultConfig EXCEPT !.TELEGRAM_BOT_TOKEN = "token",
                           !.TELEGRAM_CHAT_IDS = <<"chat-1">>]}

InitRace ==
    /\ cfg \in RaceConfigs
    /\ seen_items \in RaceTables
    /\ now = 0
    /\ calls = <<>>
    /\ inserted = [i \in ItemIds |-> NoItem]
    /\ marked = {}
    /\ parsed = NoParse
    /\ InitLoop
    /\ InitRest

NextRace ==
    \/ \E item \in RaceItems : Arrive(item)
    \/ \E p \in Invocations : Check(p)
    \/ \E p \in Invocations : Insert(p)
    \/ \E p \in Invocations, ctor \in {"ok", "raises"},
          sends \in [1..Len(cfg.TELEGRAM_CHAT_IDS) -> SendOutcomes] :
           NotifyNew(p, ctor, sends)
    \/ Tick

SpecRace == InitRace /\ [][NextRace]_vars

\* the add_item calls that returned True
ReturnedTrue == {p \in Invocations : race.inv[p].ret = "True"}

\* what the PRIMARY KEY guarantees: one True at most, one row at most, one
\* notification at most
RaceOutcomeBounded ==
    /\ Cardinality(ReturnedTrue) <= 1
    /\ \A id \in ItemIds :
          Cardinality({r \in seen_items : r.item_id = id}) <= 1
    /\ Cardinality({p \in Invocations : race.inv[p].notified}) <= 1

ReturnedFor(j, id) ==
    \E l \in remote[j].listings :
       /\ l.itemId = id
       /\ IF remote[j].api = "browse" THEN BrowseKeeps(l, cfg)
          ELSE FindingKeeps(l, cfg)

\* the keyword stored with the id
StoredKeywords(table, id) ==
    {r.search_keyword : r \in {q \in table : q.item_id = id}}

\* the item loop is at an item that the store takes for new, or has just
\* done so and is about to notify
AtItem == pc \in {"items", "notify"} /\ idx >= 1 /\ idx <= Len(items)

\* a step stores an id only under the keyword being searched, which is the
\* first of the run that returned it; a stored keyword does not change; the
\* counters of new items move only with an insert
KeywordKept ==
    /\ \A id \in ItemIds :
          /\ (StoredKeywords(seen_items, id) /= {}
                /\ StoredKeywords(seen_items', id) /= {})
               => StoredKeywords(seen_items', id) = StoredKeywords(seen_items, id)
          /\ (StoredKeywords(seen_items, id) = {}
                /\ StoredKeywords(seen_items', id) /= {})
               => /\ AtItem
                  /\ items[idx].item_id = id
                  /\ StoredKeywords(seen_items', id) = {cfg.SEARCH_KEYWORDS[kwIdx]}
                  /\ \A j \in 1..(kwIdx - 1) : ~ReturnedFor(j, id)
                  /\ total_new_items' = total_new_items + 1
    /\ (pc = "items" /\ pc' \in {"items", "notify"}
          /\ total_new_items' /= total_new_items)
         => \E id \in ItemIds : /\ StoredKeywords(seen_items, id) = {}
                                /\ StoredKeywords(seen_items', id) /= {}

\* an id has one row, is passed to notify_new_item once in a run at most,
\* and is passed with the keyword its row holds
StoredOnce ==
    /\ \A id \in ItemIds :
          /\ Cardinality({r \in seen_items : r.item_id = id}) <= 1
          /\ Occurrences(id, attempts) <= 1
    /\ pc = "notify" =>
          StoredKeywords(seen_items, items[idx].item_id) = {items[idx].keyword}

\* C30: an item returned for two keywords, in one run or in later runs, is
\* stored once, with the keyword of the first search that returned it; the
\* stored keyword is never overwritten; the item is counted as new and
\* passed to notify_new_item only under that first keyword.
C30_FirstKeywordKept == []StoredOnce /\ [][KeywordKept]_vars

\* both keywords of one run returned A: one row under the first keyword,
\* one new item, one notification
C30_Witness ==
    /\ runNo = 1
    /\ ~cut.happened
    /\ pc = "done"
    /\ Len(remote) = 2
    /\ ReturnedFor(1, "A")
    /\ ReturnedFor(2, "A")
    /\ StoredKeywords(seen_items, "A") = {cfg.SEARCH_KEYWORDS[1]}
    /\ total_new_items = 1
    /\ attempts = <<"A">>

====
